---- MODULE Spec2Model ----
(***************************************************************************)
(* A model of pfp-native-host: the KDBX 4 codec of the keepass_db crate    *)
(* (outer header, key derivation, HMAC block stream, cipher layer, inner   *)
(* header, protected-field pass, entry/alias view) and the request         *)
(* handlers of the native_host crate.                                      *)
(*                                                                         *)
(* Byte streams are sequences of bytes.  A byte is a tuple: <<"n", v>> is  *)
(* the byte with the numeric value v; every other tuple is one byte of the *)
(* output of a cryptographic primitive or of an external encoder (SHA-256, *)
(* HMAC, ciphers, gzip, the XML emitter), kept as a term over its inputs.  *)
(* Two such bytes are equal exactly when the primitive was applied to the  *)
(* same inputs at the same offset.                                         *)
(***************************************************************************)
EXTENDS Integers, Sequences, FiniteSets, TLC

VARIABLES
    file,      \* content of the database file (a byte sequence)
    pc,        \* position of the library caller: which call comes next
    inpos,     \* number of bytes of the input stream consumed so far
    db,        \* the Database value, <<>> when there is none
    keys,      \* the Keys value, <<>> when there is none
    xml,       \* the DatabaseXML value, <<>> when there is none
    res,       \* outcome of the last operation
    hist,      \* what the last operation started from (for the properties)
    stdin,     \* the messages the server loop has read from its input
    stdout     \* the responses the server loop has written to its output

vars == <<file, pc, inpos, db, keys, xml, res, hist, stdin, stdout>>

-----------------------------------------------------------------------------
(* Bytes and fixed-width integers (io.rs)                                  *)

N(v) == <<"n", v>>
IsN(b) == b[1] = "n"
Bytes(s) == [i \in 1..Len(s) |-> N(s[i])]
AllN(bs) == \A i \in 1..Len(bs) : IsN(bs[i])
Repeat(v, n) == [i \in 1..n |-> N(v)]

Pow256(k) == CASE k = 0 -> 1 [] k = 1 -> 256 [] k = 2 -> 65536 [] k = 3 -> 16777216

\* impl_serialize!: to_le_bytes of an integer of n bytes
to_le_bytes(v, n) == [i \in 1..n |-> N(IF i <= 4 THEN (v \div Pow256(i - 1)) % 256 ELSE 0)]

\* from_le_bytes of four numeric bytes, as usize; a value of 2^31 or more
\* saturates at 2^31 - 1, which exceeds the length of every stream here
from_le_bytes(bs) ==
    IF bs[4][2] >= 128 THEN 2147483647
    ELSE bs[1][2] + 256 * bs[2][2] + 65536 * bs[3][2] + 16777216 * bs[4][2]

Ok(val, pos) == [err |-> "Ok", val |-> val, pos |-> pos]
Err(code) == [err |-> code, val |-> <<>>, pos |-> 0]

\* the `?` operator: the error of r is returned, else the function goes on
\* with r
Try(r, rest(_)) == IF r.err # "Ok" THEN r ELSE rest(r)

\* a `let` binding: the function goes on with the value v
With(v, rest(_)) == rest(v)

\* Read::read_exact: n bytes starting at the 1-based position pos
read_exact(input, pos, n) ==
    IF n > Len(input) - pos + 1 THEN Err("Io")
    ELSE Ok(SubSeq(input, pos, pos + n - 1), pos + n)

\* impl_deserialize!: the n bytes of an integer.  A byte that is a term
\* has no known numeric value: the outcome "Opaque" stands for whatever
\* the code does with it.
deserialize_int(input, pos, n) ==
    LET r == read_exact(input, pos, n)
    IN  IF r.err # "Ok" THEN r
        ELSE IF ~AllN(r.val) THEN Err("Opaque")
        ELSE r

\* std::str::from_utf8 on numeric bytes
RECURSIVE IsUtf8(_)
IsUtf8(bs) ==
    IF Len(bs) = 0 THEN TRUE
    ELSE LET b == bs[1][2]
             c(i) == Len(bs) >= i /\ bs[i][2] >= 128 /\ bs[i][2] <= 191
             in(i, lo, hi) == Len(bs) >= i /\ bs[i][2] >= lo /\ bs[i][2] <= hi
             n == CASE b < 128 -> 1
                    [] b >= 194 /\ b <= 223 /\ c(2) -> 2
                    [] b = 224 /\ in(2, 160, 191) /\ c(3) -> 3
                    [] b >= 225 /\ b <= 236 /\ c(2) /\ c(3) -> 3
                    [] b = 237 /\ in(2, 128, 159) /\ c(3) -> 3
                    [] b >= 238 /\ b <= 239 /\ c(2) /\ c(3) -> 3
                    [] b = 240 /\ in(2, 144, 191) /\ c(3) /\ c(4) -> 4
                    [] b >= 241 /\ b <= 243 /\ c(2) /\ c(3) /\ c(4) -> 4
                    [] b = 244 /\ in(2, 128, 143) /\ c(3) /\ c(4) -> 4
                    [] OTHER -> 0
         IN  n > 0 /\ IsUtf8(SubSeq(bs, n + 1, Len(bs)))

\* DeserializeWithSize for Vec<u8>
deserialize_vec(input, pos, size) == read_exact(input, pos, size)

\* DeserializeWithSize for String
deserialize_string(input, pos, size) ==
    LET r == read_exact(input, pos, size)
    IN  IF r.err # "Ok" THEN r
        ELSE IF ~AllN(r.val) THEN Err("Opaque")
        ELSE IF ~IsUtf8(r.val) THEN Err("Encoding")
        ELSE r

-----------------------------------------------------------------------------
(* numeric_enum.rs, header_field_type.rs, compression.rs, cipher.rs        *)

\* a field type conversion that takes every unknown value for a comment
OuterHeaderFieldType_lenient(v) ==
    CASE v = 0 -> "EndOfHeader" [] v = 2 -> "Cipher"
      [] v = 3 -> "Compression" [] v = 4 -> "MainSeed"
      [] v = 7 -> "InitializationVector" [] v = 11 -> "KdfParameters"
      [] v = 12 -> "CustomData" [] OTHER -> "Comment"

\* numeric_enum!: TryFrom<u8> for OuterHeaderFieldType
OuterHeaderFieldType(v) ==
    CASE v = 0 -> "EndOfHeader" [] v = 1 -> "Comment" [] v = 2 -> "Cipher"
      [] v = 3 -> "Compression" [] v = 4 -> "MainSeed"
      [] v = 7 -> "InitializationVector" [] v = 11 -> "KdfParameters"
      [] v = 12 -> "CustomData" [] OTHER -> "UnsupportedHeaderFieldType"

\* numeric_enum!: From<&OuterHeaderFieldType> for u8
OuterHeaderFieldTypeValue(t) ==
    CASE t = "EndOfHeader" -> 0 [] t = "Comment" -> 1 [] t = "Cipher" -> 2
      [] t = "Compression" -> 3 [] t = "MainSeed" -> 4
      [] t = "InitializationVector" -> 7 [] t = "KdfParameters" -> 11
      [] t = "CustomData" -> 12

UUID_AES256 == Bytes(<<49, 193, 242, 230, 191, 113, 67, 80, 190, 88, 5, 33, 106, 252, 90, 255>>)
UUID_TWOFISH == Bytes(<<173, 104, 242, 159, 87, 111, 75, 185, 163, 106, 212, 122, 249, 101, 52, 108>>)
UUID_CHACHA20 == Bytes(<<214, 3, 138, 43, 139, 111, 76, 181, 165, 36, 51, 154, 49, 219, 181, 154>>)

BlockCipher_SIZE == Len(UUID_AES256)
Compression_SIZE == 4

\* BlockCipher::iv_size
iv_size(cipher) == CASE cipher = "Aes256" -> 16 [] cipher = "Twofish" -> 16 [] cipher = "ChaCha20" -> 12

\* Serialize for BlockCipher
BlockCipher_serialize(cipher) ==
    CASE cipher = "Aes256" -> UUID_AES256 [] cipher = "Twofish" -> UUID_TWOFISH
      [] cipher = "ChaCha20" -> UUID_CHACHA20

\* Deserialize for BlockCipher
BlockCipher_deserialize(input, pos) ==
    LET r == read_exact(input, pos, BlockCipher_SIZE)
    IN  IF r.err # "Ok" THEN r
        ELSE IF r.val = UUID_AES256 THEN Ok("Aes256", r.pos)
        ELSE IF r.val = UUID_TWOFISH THEN Ok("Twofish", r.pos)
        ELSE IF r.val = UUID_CHACHA20 THEN Ok("ChaCha20", r.pos)
        ELSE Err("UnsupportedBlockCipher")

\* Serialize for Compression (u32)
Compression_serialize(c) == to_le_bytes(IF c = "Gzip" THEN 1 ELSE 0, 4)

\* Deserialize for Compression (u32, then try_into)
Compression_deserialize(input, pos) ==
    LET r == deserialize_int(input, pos, 4)
    IN  IF r.err # "Ok" THEN r
        ELSE IF r.val = to_le_bytes(0, 4) THEN Ok("None", r.pos)
        ELSE IF r.val = to_le_bytes(1, 4) THEN Ok("Gzip", r.pos)
        ELSE Err("UnsupportedCompression")

-----------------------------------------------------------------------------
(* variant_field.rs, variant_list.rs                                       *)
(* A field is [key, t, value]: key the bytes of the key string, t the      *)
(* variant type, value the bytes of the value (Bool: the byte 1 or 0).     *)

\* numeric_enum!: TryFrom<u8> for VariantType
VariantType(v) ==
    CASE v = 0 -> "EndOfList" [] v = 4 -> "U32" [] v = 5 -> "U64" [] v = 8 -> "Bool"
      [] v = 12 -> "I32" [] v = 13 -> "I64" [] v = 24 -> "String" [] v = 66 -> "Bytes"
      [] OTHER -> "UnsupportedVariantType"

VariantTypeValue(t) ==
    CASE t = "EndOfList" -> 0 [] t = "U32" -> 4 [] t = "U64" -> 5 [] t = "Bool" -> 8
      [] t = "I32" -> 12 [] t = "I64" -> 13 [] t = "String" -> 24 [] t = "Bytes" -> 66

\* the fixed width of a variant type, 0 for String and Bytes
VariantWidth(t) ==
    CASE t \in {"U32", "I32"} -> 4 [] t \in {"U64", "I64"} -> 8 [] t = "Bool" -> 1 [] OTHER -> 0

\* VariantValue::len
VariantValue_len(f) == IF VariantWidth(f.t) > 0 THEN VariantWidth(f.t) ELSE Len(f.value)

\* VariantField::len
VariantField_len(f) == 1 + 8 + Len(f.key) + VariantValue_len(f)

\* Serialize for VariantField
VariantField_serialize(f) ==
    to_le_bytes(VariantTypeValue(f.t), 1) \o to_le_bytes(Len(f.key), 4) \o f.key
      \o to_le_bytes(VariantValue_len(f), 4)
      \o f.value

\* Deserialize for VariantField; val is <<>> for EndOfList and <<field>> otherwise
VariantField_deserialize(input, pos) ==
    Try(deserialize_int(input, pos, 1), LAMBDA ty :
    With(VariantType(ty.val[1][2]), LAMBDA t :
        IF t = "UnsupportedVariantType" THEN Err(t)
        ELSE IF t = "EndOfList" THEN Ok(<<>>, ty.pos)
        ELSE
    Try(deserialize_int(input, ty.pos, 4), LAMBDA ks :
    Try(deserialize_string(input, ks.pos, from_le_bytes(ks.val)), LAMBDA key :
    Try(deserialize_int(input, key.pos, 4), LAMBDA sz :
    With(from_le_bytes(sz.val), LAMBDA size :
        IF VariantWidth(t) > 0
        THEN IF size # VariantWidth(t) THEN Err("InvalidFieldSize")
             ELSE Try(deserialize_int(input, sz.pos, VariantWidth(t)), LAMBDA fixed :
                      Ok(<<[key |-> key.val, t |-> t,
                            value |-> IF t = "Bool"
                                      THEN to_le_bytes(IF fixed.val[1][2] # 0 THEN 1 ELSE 0, 1)
                                      ELSE fixed.val]>>,
                         fixed.pos))
        ELSE Try(IF t = "String" THEN deserialize_string(input, sz.pos, size)
                 ELSE deserialize_vec(input, sz.pos, size), LAMBDA blob :
                 Ok(<<[key |-> key.val, t |-> t, value |-> blob.val]>>, blob.pos))))))))

RECURSIVE SumLen(_)
SumLen(list) == IF list = <<>> THEN 0 ELSE VariantField_len(Head(list)) + SumLen(Tail(list))

\* VariantList::len
VariantList_len(list) == 2 + SumLen(list) + 1

\* variant_list.rs: VERSION = 0x0100, little-endian
VERSION == Bytes(<<0, 1>>)

RECURSIVE ConcatFields(_)
ConcatFields(list) ==
    IF list = <<>> THEN <<>> ELSE VariantField_serialize(Head(list)) \o ConcatFields(Tail(list))

\* Serialize for VariantList
VariantList_serialize(list) == VERSION \o ConcatFields(list) \o to_le_bytes(VariantTypeValue("EndOfList"), 1)

RECURSIVE VariantList_fields(_, _, _)
VariantList_fields(input, pos, list) ==
    Try(VariantField_deserialize(input, pos), LAMBDA f :
        IF f.val = <<>> THEN Ok(list, f.pos)
        ELSE VariantList_fields(input, f.pos, list \o f.val))

\* Deserialize for VariantList
VariantList_deserialize(input, pos) ==
    Try(deserialize_int(input, pos, 2), LAMBDA v :
        IF v.val[2][2] > VERSION[2][2] THEN Err("UnsupportedVariantListVersion")
        ELSE VariantList_fields(input, v.pos, <<>>))

\* VariantList::get: <<>> or <<field>>
VariantList_get(list, key) ==
    LET hits == SelectSeq(list, LAMBDA f : f.key = key)
    IN  IF hits = <<>> THEN <<>> ELSE <<Head(hits)>>

-----------------------------------------------------------------------------
(* kdf_parameters.rs                                                       *)
(* KdfParameters is [algorithm, salt, version, parallelism, memory,        *)
(* iterations]; the three u32 are kept as their four little-endian bytes.  *)

UUID_ARGON2D == Bytes(<<239, 99, 109, 223, 140, 41, 68, 75, 145, 247, 169, 164, 3, 227, 10, 12>>)
UUID_ARGON2ID == Bytes(<<158, 41, 139, 25, 86, 219, 71, 115, 178, 61, 252, 62, 198, 240, 161, 230>>)
UUID_AESKDF == Bytes(<<124, 2, 187, 130, 121, 167, 74, 192, 146, 125, 17, 74, 0, 100, 130, 56>>)

\* numeric value of byte i of bs, 0 beyond its end
ByteAt(bs, i) == IF i >= 1 /\ i <= Len(bs) THEN bs[i][2] ELSE 0

\* u64 / 1024 on the eight little-endian bytes of the value
Div1024(m) == [i \in 1..8 |-> N((ByteAt(m, i + 1) \div 4) + (ByteAt(m, i + 2) % 4) * 64)]

\* (u32 as u64) * 1024 on the four little-endian bytes of the value
Mul1024(m) == [j \in 1..8 |-> N((ByteAt(m, j - 2) \div 64) + (ByteAt(m, j - 1) % 64) * 4)]

\* u64::try_into::<u32>: <<>> when the value does not fit
TryIntoU32(v) == IF SubSeq(v, 5, 8) = to_le_bytes(0, 4) THEN <<SubSeq(v, 1, 4)>> ELSE <<>>

Key(name) ==
    CASE name = "$UUID" -> Bytes(<<36, 85, 85, 73, 68>>) [] name = "S" -> Bytes(<<83>>)
      [] name = "V" -> Bytes(<<86>>) [] name = "P" -> Bytes(<<80>>)
      [] name = "M" -> Bytes(<<77>>) [] name = "I" -> Bytes(<<73>>)

\* From<&KdfParameters> for VariantList
VariantList_from(kdf) ==
    << [key |-> Key("$UUID"), t |-> "Bytes",
        value |-> IF kdf.algorithm = "D" THEN UUID_ARGON2D ELSE UUID_ARGON2ID],
       [key |-> Key("S"), t |-> "Bytes", value |-> kdf.salt],
       [key |-> Key("V"), t |-> "U32",
        value |-> to_le_bytes(IF kdf.version = "Version10" THEN 16 ELSE 19, 4)],
       [key |-> Key("P"), t |-> "U32", value |-> kdf.parallelism],
       [key |-> Key("M"), t |-> "U64", value |-> Mul1024(kdf.memory)],
       [key |-> Key("I"), t |-> "U64", value |-> kdf.iterations \o to_le_bytes(0, 4)] >>

\* TryFrom<VariantList> for KdfParameters
KdfParameters_try_from(list) ==
    LET get(name) == VariantList_get(list, Key(name))
        has(name, t) == get(name) # <<>> /\ get(name)[1].t = t
        val(name) == get(name)[1].value
        memory == TryIntoU32(Div1024(val("M")))
        iterations == TryIntoU32(val("I"))
    IN  IF ~has("$UUID", "Bytes") THEN Err("KdfFieldMissingOrInvalid")
        ELSE IF val("$UUID") = UUID_AESKDF THEN Err("AesKDFUnsupported")
        ELSE IF val("$UUID") \notin {UUID_ARGON2D, UUID_ARGON2ID} THEN Err("UnsupportedKDF")
        ELSE IF ~has("S", "Bytes") THEN Err("KdfFieldMissingOrInvalid")
        ELSE IF ~has("V", "U32") THEN Err("KdfFieldMissingOrInvalid")
        ELSE IF val("V") \notin {to_le_bytes(16, 4), to_le_bytes(19, 4)} THEN Err("UnsupportedKDF")
        ELSE IF ~has("P", "U32") THEN Err("KdfFieldMissingOrInvalid")
        ELSE IF ~has("M", "U64") THEN Err("KdfFieldMissingOrInvalid")
        ELSE IF memory = <<>> THEN Err("KDFParameterExceedsRange")
        ELSE IF ~has("I", "U64") THEN Err("KdfFieldMissingOrInvalid")
        ELSE IF iterations = <<>> THEN Err("KDFParameterExceedsRange")
        ELSE Ok([algorithm |-> IF val("$UUID") = UUID_ARGON2D THEN "D" ELSE "ID",
                 salt |-> val("S"),
                 version |-> IF val("V") = to_le_bytes(16, 4) THEN "Version10" ELSE "Version13",
                 parallelism |-> val("P"),
                 memory |-> memory[1],
                 iterations |-> iterations[1]], 0)

-----------------------------------------------------------------------------
(* database_version.rs                                                     *)

\* SIGNATURE1 = 0x9AA2D903 and SIGNATURE2 = 0xB54BFB67, little-endian
SIGNATURE1 == Bytes(<<3, 217, 162, 154>>)
SIGNATURE2 == Bytes(<<103, 251, 75, 181>>)

\* Serialize for DatabaseVersion; version is [major, minor], two bytes each
DatabaseVersion_serialize(version) == SIGNATURE1 \o SIGNATURE2 \o version.minor \o version.major

\* Deserialize for DatabaseVersion
DatabaseVersion_deserialize(input, pos) ==
    LET signature1 == deserialize_int(input, pos, 4)
        signature2 == deserialize_int(input, signature1.pos, 4)
        minor == deserialize_int(input, signature2.pos, 2)
        major == deserialize_int(input, minor.pos, 2)
    IN  IF signature1.err # "Ok" THEN signature1
        ELSE IF signature2.err # "Ok" THEN signature2
        ELSE IF signature1.val # SIGNATURE1 \/ signature2.val # SIGNATURE2 THEN Err("CorruptDatabase")
        ELSE IF minor.err # "Ok" THEN minor
        ELSE IF major.err # "Ok" THEN major
        ELSE IF major.val # to_le_bytes(4, 2) THEN Err("UnsupportedVersion")
        ELSE Ok([major |-> major.val, minor |-> minor.val], major.pos)

-----------------------------------------------------------------------------
(* database_header.rs: OuterHeader                                         *)
(* OuterHeader is [cipher, compression, main_seed, iv, kdf_parameters,     *)
(* custom_data]; custom_data is <<>> (None) or <<list>>.                   *)

HeaderField(t, data) == to_le_bytes(OuterHeaderFieldTypeValue(t), 1) \o to_le_bytes(Len(data), 4) \o data

\* a serializer that leaves the custom data out
OuterHeader_serialize_required(header) ==
    HeaderField("Cipher", BlockCipher_serialize(header.cipher))
      \o HeaderField("Compression", Compression_serialize(header.compression))
      \o HeaderField("MainSeed", header.main_seed)
      \o HeaderField("InitializationVector", header.iv)
      \o HeaderField("KdfParameters", VariantList_serialize(VariantList_from(header.kdf_parameters)))
      \o HeaderField("EndOfHeader", Bytes(<<13, 10, 13, 10>>))

\* Serialize for OuterHeader
OuterHeader_serialize(header) ==
    HeaderField("Cipher", BlockCipher_serialize(header.cipher))
      \o HeaderField("Compression", Compression_serialize(header.compression))
      \o HeaderField("MainSeed", header.main_seed)
      \o HeaderField("InitializationVector", header.iv)
      \o HeaderField("KdfParameters", VariantList_serialize(VariantList_from(header.kdf_parameters)))
      \o (IF header.custom_data = <<>> THEN <<>>
          ELSE HeaderField("CustomData", VariantList_serialize(header.custom_data[1])))
      \o HeaderField("EndOfHeader", Bytes(<<13, 10, 13, 10>>))

\* the loop of OuterHeader::deserialize; acc maps each field seen to <<value>>
RECURSIVE OuterHeader_fields(_, _, _)
OuterHeader_fields(input, pos, acc) ==
    Try(deserialize_int(input, pos, 1), LAMBDA ft :
    With(OuterHeaderFieldType(ft.val[1][2]), LAMBDA field_type :
        IF field_type = "UnsupportedHeaderFieldType" THEN Err(field_type)
        ELSE
    Try(deserialize_int(input, ft.pos, 4), LAMBDA sz :
    With(from_le_bytes(sz.val), LAMBDA size :
        CASE field_type = "Comment" ->
                Try(deserialize_vec(input, sz.pos, size), LAMBDA vec :
                    OuterHeader_fields(input, vec.pos, acc))
          [] field_type = "Cipher" ->
                IF size # BlockCipher_SIZE THEN Err("InvalidFieldSize")
                ELSE Try(BlockCipher_deserialize(input, sz.pos), LAMBDA cipher :
                         OuterHeader_fields(input, cipher.pos,
                             [acc EXCEPT !.cipher = <<cipher.val>>]))
          [] field_type = "Compression" ->
                IF size # Compression_SIZE THEN Err("InvalidFieldSize")
                ELSE Try(Compression_deserialize(input, sz.pos), LAMBDA compression :
                         OuterHeader_fields(input, compression.pos,
                             [acc EXCEPT !.compression = <<compression.val>>]))
          [] field_type = "MainSeed" ->
                Try(deserialize_vec(input, sz.pos, size), LAMBDA vec :
                    OuterHeader_fields(input, vec.pos, [acc EXCEPT !.main_seed = <<vec.val>>]))
          [] field_type = "InitializationVector" ->
                Try(deserialize_vec(input, sz.pos, size), LAMBDA vec :
                    OuterHeader_fields(input, vec.pos, [acc EXCEPT !.iv = <<vec.val>>]))
          [] field_type = "KdfParameters" ->
                Try(VariantList_deserialize(input, sz.pos), LAMBDA list :
                    IF VariantList_len(list.val) # size THEN Err("InvalidFieldSize")
                    ELSE Try(KdfParameters_try_from(list.val), LAMBDA kdf :
                             OuterHeader_fields(input, list.pos,
                                 [acc EXCEPT !.kdf_parameters = <<kdf.val>>])))
          [] field_type = "CustomData" ->
                Try(VariantList_deserialize(input, sz.pos), LAMBDA list :
                    IF VariantList_len(list.val) # size THEN Err("InvalidFieldSize")
                    ELSE OuterHeader_fields(input, list.pos,
                             [acc EXCEPT !.custom_data = <<list.val>>]))
          [] field_type = "EndOfHeader" ->
                Try(deserialize_vec(input, sz.pos, size), LAMBDA vec : Ok(acc, vec.pos))))))

\* Deserialize for OuterHeader
OuterHeader_deserialize(input, pos) ==
    Try(OuterHeader_fields(input, pos,
            [cipher |-> <<>>, compression |-> <<>>, main_seed |-> <<>>, iv |-> <<>>,
             kdf_parameters |-> <<>>, custom_data |-> <<>>]), LAMBDA r :
        IF \E f \in {"cipher", "compression", "main_seed", "iv", "kdf_parameters"} :
               r.val[f] = <<>>
        THEN Err("HeaderFieldsMissing")
        ELSE Ok([cipher |-> r.val.cipher[1], compression |-> r.val.compression[1],
                 main_seed |-> r.val.main_seed[1], iv |-> r.val.iv[1],
                 kdf_parameters |-> r.val.kdf_parameters[1],
                 custom_data |-> r.val.custom_data], r.pos))

-----------------------------------------------------------------------------
(* Hashes and key derivation (keys.rs, kdf_parameters.rs)                  *)
(* A digest is kept as the term <<algorithm, inputs...>>; a byte vector    *)
(* that holds a digest is that term, and DigestBytes spreads it over the   *)
(* n bytes it occupies in a stream.                                        *)

DigestBytes(d, n) == [i \in 1..n |-> <<"d", i, d>>]

\* argon2::hash rejects parameters outside the ranges Argon2 is defined for
Argon2Valid(kdf) ==
    /\ from_le_bytes(kdf.iterations) >= 1
    /\ from_le_bytes(kdf.parallelism) >= 1
    /\ from_le_bytes(kdf.memory) \div 8 >= from_le_bytes(kdf.parallelism)
    /\ Len(kdf.salt) >= 8

\* KdfParameters::derive_key
derive_key(kdf, password) ==
    IF ~Argon2Valid(kdf) THEN Err("KeyDerivation")
    ELSE Ok(<<"Argon2", kdf, password>>, 0)

\* Keys::derive
Keys_derive(main_password, header) ==
    LET hashed_password == <<"Sha256", main_password>>
        composite_key == <<"Sha256", hashed_password>>
        derived_key == derive_key(header.kdf_parameters, composite_key)
    IN  IF derived_key.err # "Ok" THEN derived_key
        ELSE Ok([encryption |-> <<"Sha256", header.main_seed, derived_key.val>>,
                 hmac |-> <<"Sha512", header.main_seed, derived_key.val, 1>>], 0)

\* Keys::get_hmac_hasher followed by update(data) and finalize
Hmac(ks, block_index, data) == <<"HmacSha256", <<"Sha512", block_index, ks.hmac>>, data>>

-----------------------------------------------------------------------------
(* cipher.rs: BlockCipher::encrypt / decrypt                               *)
(* The ciphertext of a whole buffer is one element of the stream, a term   *)
(* over cipher, key, iv and plaintext.                                     *)

\* BlockCipher::encrypt; key.into() and iv.into() panic on a wrong length
BlockCipher_encrypt(cipher, data, key, iv) ==
    IF Len(iv) # iv_size(cipher) THEN Err("Panic")
    ELSE Ok(<< <<"enc", cipher, key, iv, data>> >>, 0)

\* BlockCipher::decrypt.  Decrypting anything but the ciphertext made with
\* the same cipher, key and iv gives bytes without a known value: a CBC
\* cipher may or may not find a valid padding in them.
BlockCipher_decrypt(cipher, data, key, iv) ==
    IF Len(iv) # iv_size(cipher) THEN {Err("Panic")}
    ELSE IF /\ Len(data) = 1 /\ Len(data[1]) = 5 /\ data[1][1] = "enc"
            /\ data[1][2] = cipher /\ data[1][3] = key /\ data[1][4] = iv
         THEN {Ok(data[1][5], 0)}
    ELSE IF cipher = "ChaCha20" THEN {Ok(<< <<"dec", cipher, key, iv, data>> >>, 0)}
    ELSE {Err("DecryptionError"), Ok(<< <<"dec", cipher, key, iv, data>> >>, 0)}

-----------------------------------------------------------------------------
(* hmac_block_stream.rs                                                    *)

BLOCK_SIZE == 1048576

\* HmacBlockStreamWriter::write_block
write_block(ks, index, current) ==
    DigestBytes(Hmac(ks, index, <<index, to_le_bytes(Len(current), 4), current>>), 32)
      \o to_le_bytes(Len(current), 4) \o current

\* Write::write_all of buf to a new writer, then HmacBlockStreamWriter::finish
RECURSIVE HmacBlockStreamWriter(_, _, _)
HmacBlockStreamWriter(ks, index, buf) ==
    IF Len(buf) >= BLOCK_SIZE
    THEN write_block(ks, index, SubSeq(buf, 1, BLOCK_SIZE))
           \o HmacBlockStreamWriter(ks, index + 1, SubSeq(buf, BLOCK_SIZE + 1, Len(buf)))
    ELSE (IF buf # <<>> THEN write_block(ks, index, buf) ELSE <<>>)
           \o write_block(ks, IF buf # <<>> THEN index + 1 ELSE index, <<>>)

\* a next_block that takes the record without comparing its HMAC
next_block_unverified(input, pos, ks, index) ==
    Try(deserialize_vec(input, pos, 32), LAMBDA hash_expected :
    Try(deserialize_int(input, hash_expected.pos, 4), LAMBDA block_size :
        deserialize_vec(input, block_size.pos, from_le_bytes(block_size.val))))

\* HmacBlockStreamReader::next_block for the block with the given index;
\* val is the block
next_block(input, pos, ks, index) ==
    Try(deserialize_vec(input, pos, 32), LAMBDA hash_expected :
    Try(deserialize_int(input, hash_expected.pos, 4), LAMBDA block_size :
    Try(deserialize_vec(input, block_size.pos, from_le_bytes(block_size.val)), LAMBDA block :
        IF DigestBytes(Hmac(ks, index, <<index, block_size.val, block.val>>), 32)
             # hash_expected.val
        THEN Err("CorruptDatabase")
        ELSE block)))

\* Read::read_to_end on a new HmacBlockStreamReader: read() calls next_block
\* until a block of size zero; `self.next_block()?` inside read() turns the
\* reader's error into a std::io::Error (error.rs), which the caller of
\* read_to_end receives as Error::Io
RECURSIVE HmacBlockStreamReader(_, _, _, _, _)
HmacBlockStreamReader(input, pos, ks, index, data) ==
    With(next_block(input, pos, ks, index), LAMBDA r :
        IF r.err # "Ok" THEN Err("Io")
        ELSE IF r.val = <<>> THEN Ok(data, r.pos)
        ELSE HmacBlockStreamReader(input, r.pos, ks, index + 1, data \o r.val))

-----------------------------------------------------------------------------
(* database_header.rs: InnerHeader; cipher.rs: StreamCipher                *)
(* InnerHeader is [cipher, key, binaries]; a binary is [flags, data].      *)

RECURSIVE Flat(_)
Flat(ss) == IF ss = <<>> THEN <<>> ELSE ss[1] \o Flat(Tail(ss))

\* numeric_enum!: StreamCipher as u32
StreamCipher(bs) ==
    CASE bs = to_le_bytes(2, 4) -> "Salsa20" [] bs = to_le_bytes(3, 4) -> "ChaCha20"
      [] OTHER -> "UnsupportedStreamCipher"

\* StreamCipher::key_size
key_size(cipher) == IF cipher = "Salsa20" THEN 32 ELSE 64

\* Serialize for InnerHeader (field types StreamCipher = 1, StreamKey = 2,
\* Binary = 3, EndOfHeader = 0)
InnerHeader_serialize(h) ==
    to_le_bytes(1, 1) \o to_le_bytes(4, 4) \o to_le_bytes(IF h.cipher = "Salsa20" THEN 2 ELSE 3, 4)
      \o to_le_bytes(2, 1) \o to_le_bytes(Len(h.key), 4) \o h.key
      \o Flat([i \in 1..Len(h.binaries) |->
                 to_le_bytes(3, 1) \o to_le_bytes(1 + Len(h.binaries[i].data), 4)
                   \o h.binaries[i].flags \o h.binaries[i].data])
      \o to_le_bytes(0, 1) \o to_le_bytes(0, 4)

\* Deserialize for InnerHeader; acc is [cipher, key, binaries] with <<>> for None
RECURSIVE InnerHeader_deserialize(_, _, _)
InnerHeader_deserialize(input, pos, acc) ==
    Try(deserialize_int(input, pos, 1), LAMBDA ft :
        IF ft.val[1][2] > 3 THEN Err("UnsupportedHeaderFieldType")
        ELSE
    Try(deserialize_int(input, ft.pos, 4), LAMBDA sz :
    With(from_le_bytes(sz.val), LAMBDA size :
        CASE ft.val[1][2] = 1 ->
                IF size # 4 THEN Err("InvalidFieldSize")
                ELSE Try(deserialize_int(input, sz.pos, 4), LAMBDA cipher :
                         IF StreamCipher(cipher.val) = "UnsupportedStreamCipher"
                         THEN Err("UnsupportedStreamCipher")
                         ELSE InnerHeader_deserialize(input, cipher.pos,
                                  [acc EXCEPT !.cipher = <<StreamCipher(cipher.val)>>]))
          [] ft.val[1][2] = 2 ->
                Try(deserialize_vec(input, sz.pos, size), LAMBDA vec :
                    InnerHeader_deserialize(input, vec.pos, [acc EXCEPT !.key = <<vec.val>>]))
          [] ft.val[1][2] = 3 ->
                IF size < 1 THEN Err("InvalidFieldSize")
                ELSE Try(deserialize_int(input, sz.pos, 1), LAMBDA flags :
                         IF flags.val[1][2] > 1 THEN Err("UnsupportedBinaryFlags")
                         ELSE Try(deserialize_vec(input, flags.pos, size - 1), LAMBDA data :
                                  InnerHeader_deserialize(input, data.pos,
                                      [acc EXCEPT !.binaries =
                                           @ \o <<[flags |-> flags.val, data |-> data.val]>>])))
          [] ft.val[1][2] = 0 ->
                Try(deserialize_vec(input, sz.pos, size), LAMBDA vec :
                    IF acc.cipher = <<>> \/ acc.key = <<>> THEN Err("HeaderFieldsMissing")
                    ELSE Ok([cipher |-> acc.cipher[1], key |-> acc.key[1],
                             binaries |-> acc.binaries], vec.pos)))))

\* cipher.apply_keystream on a buffer, for the cipher StreamCipher::create
\* makes from (cipher, key), with off bytes of keystream used before.
\* Applying the same keystream byte twice gives the byte back.
apply_keystream(cipher, key, off, buffer) ==
    [i \in 1..Len(buffer) |->
        LET b == buffer[i]
        IN  IF /\ Len(b) = 5 /\ b[1] = "ks" /\ b[2] = cipher /\ b[3] = key /\ b[4] = off + i
            THEN b[5]
            ELSE <<"ks", cipher, key, off + i, b>>]

-----------------------------------------------------------------------------
(* Strings                                                                 *)
(* A string is the sequence of its bytes; <<"c", ch>> is the byte of the   *)
(* ASCII character ch.                                                     *)

Chars(s) == [i \in 1..Len(s) |-> <<"c", s[i]>>]
IsText(bs) == \A i \in 1..Len(bs) : bs[i][1] = "c"

\* whether the bytes are ASCII: those of a text and those of a base64
\* encoding
IsAscii(bs) == \A i \in 1..Len(bs) : bs[i][1] \in {"c", "b64"}

\* u8::to_ascii_lowercase
to_ascii_lowercase(b) ==
    IF b[1] # "c" THEN b
    ELSE CASE b[2] = "A" -> <<"c", "a">> [] b[2] = "B" -> <<"c", "b">>
           [] b[2] = "C" -> <<"c", "c">> [] b[2] = "T" -> <<"c", "t">>
           [] b[2] = "W" -> <<"c", "w">> [] OTHER -> b

\* str::eq, the comparison that tells letter cases apart
eq_exact(a, b) == a = b

\* str::eq_ignore_ascii_case
eq_ignore_ascii_case(a, b) ==
    Len(a) = Len(b) /\ \A i \in 1..Len(a) : to_ascii_lowercase(a[i]) = to_ascii_lowercase(b[i])

\* str::split(sep): the pieces between occurrences of the byte sep
RECURSIVE split(_, _)
split(str, sep) ==
    IF \A i \in 1..Len(str) : str[i] # sep THEN <<str>>
    ELSE LET k == CHOOSE i \in 1..Len(str) : str[i] = sep /\ \A j \in 1..(i - 1) : str[j] # sep
         IN  <<SubSeq(str, 1, k - 1)>> \o split(SubSeq(str, k + 1, Len(str)), sep)

\* [String]::join(sep)
RECURSIVE join(_, _)
join(strs, sep) ==
    IF strs = <<>> THEN <<>>
    ELSE IF Len(strs) = 1 THEN strs[1]
    ELSE strs[1] \o <<sep>> \o join(Tail(strs), sep)

\* base64 encode: the encoded text is one element, a term over the buffer
base64_encode(buffer) == IF buffer = <<>> THEN <<>> ELSE << <<"b64", buffer>> >>

\* base64 decode: text that is not the encoding of a buffer decodes only
\* when its length is a multiple of four, to bytes without a known value
base64_decode(text) ==
    IF text = <<>> THEN Ok(<<>>, 0)
    ELSE IF Len(text) = 1 /\ text[1][1] = "b64" THEN Ok(text[1][2], 0)
    ELSE IF ~IsText(text) \/ Len(text) % 4 # 0 THEN Err("CorruptDatabase")
    ELSE Ok(<< <<"unb64", text>> >>, 0)

\* the string literals of the code
Str(name) ==
    CASE name = "URL" -> Chars(<<"U", "R", "L">>)
      [] name = "Title" -> Chars(<<"T", "i", "t", "l", "e">>)
      [] name = "UserName" -> Chars(<<"U", "s", "e", "r", "N", "a", "m", "e">>)
      [] name = "Password" -> Chars(<<"P", "a", "s", "s", "w", "o", "r", "d">>)
      [] name = "Notes" -> Chars(<<"N", "o", "t", "e", "s">>)
      [] name = "PFP_ALIASES" -> Chars(<<"P", "F", "P", "_", "A", "L", "I", "A", "S", "E", "S">>)
      [] name = "True" -> Chars(<<"T", "r", "u", "e">>)
      [] name = "true" -> Chars(<<"t", "r", "u", "e">>)
      [] name = "False" -> Chars(<<"F", "a", "l", "s", "e">>)
      [] name = "false" -> Chars(<<"f", "a", "l", "s", "e">>)
      [] name = "null" -> Chars(<<"n", "u", "l", "l">>)
      [] name = "https://" -> Chars(<<"h", "t", "t", "p", "s", ":", "/", "/">>)
      [] name = "www." -> Chars(<<"w", "w", "w", ".">>)
      [] name = "invalid.pfp" -> Chars(<<"i", "n", "v", "a", "l", "i", "d", ".", "p", "f", "p">>)
      [] name = "Root" -> Chars(<<"R", "o", "o", "t">>)
      [] OTHER -> Chars(<<name>>)

-----------------------------------------------------------------------------
(* xml_helpers.rs, on xmltree's Element                                    *)
(* A node is [name, attrs, children, text]: an element has a name, a set   *)
(* of <<attribute, value>> pairs and children; a text node has the name    *)
(* "#text" and a text.                                                     *)

Element(name, children) == [name |-> name, attrs |-> {}, children |-> children, text |-> <<>>]
Text(t) == [name |-> "#text", attrs |-> {}, children |-> <<>>, text |-> t]
IsElement(node) == node.name # "#text"

\* Element::get_child: the first child element of that name, as an Option
get_child(el, name) ==
    LET found == SelectSeq(el.children, LAMBDA c : c.name = name)
    IN  IF found = <<>> THEN <<>> ELSE <<found[1]>>

\* XMLHelpers::index_of for the predicate `el.name == name`; 0 for None
index_of(el, name) ==
    IF \A i \in 1..Len(el.children) : el.children[i].name # name THEN 0
    ELSE CHOOSE i \in 1..Len(el.children) :
             el.children[i].name = name /\ \A j \in 1..(i - 1) : el.children[j].name # name

\* XMLHelpers::elements
elements(el) == SelectSeq(el.children, IsElement)

\* XMLHelpers::text_content (Element::get_text: the text children, joined)
text_content(el) == Flat([i \in 1..Len(el.children) |-> el.children[i].text])

\* XMLHelpers::set_text_content
set_text_content(el, text) == [el EXCEPT !.children = <<Text(text)>>]

\* XMLHelpers::to_boolean, as an Option
to_boolean(el) ==
    LET t == text_content(el)
    IN  IF t \in {Str("True"), Str("true"), Str("1")} THEN <<TRUE>>
        ELSE IF t \in {Str("False"), Str("false"), Str("0")} THEN <<FALSE>>
        ELSE <<>>

\* XMLHelpers::to_key_value, as an Option
to_key_value(el) ==
    IF get_child(el, "Key") = <<>> \/ get_child(el, "Value") = <<>> THEN <<>>
    ELSE <<[key |-> text_content(get_child(el, "Key")[1]),
            value |-> text_content(get_child(el, "Value")[1])]>>

\* XMLHelpers::add_element with the element the initializer has produced
add_element(el, child) == [el EXCEPT !.children = Append(@, child)]

RemoveAt(seq, i) == IF i = 0 THEN seq ELSE SubSeq(seq, 1, i - 1) \o SubSeq(seq, i + 1, Len(seq))

\* XMLHelpers::set_key_value
set_key_value(el, key, value, protected) ==
    LET el1 == [el EXCEPT !.children = RemoveAt(@, index_of(el, "Key"))]
        el2 == [el1 EXCEPT !.children = RemoveAt(@, index_of(el1, "Value"))]
        v == set_text_content(Element("Value", <<>>), value)
    IN  add_element(add_element(el2, set_text_content(Element("Key", <<>>), key)),
                    IF protected THEN [v EXCEPT !.attrs = {<<"Protected", "True">>}] ELSE v)

\* xmltree's emitter followed by its parser: the emitter writes nothing for
\* an empty text node, and the parser reports text made of whitespace only
\* as a Whitespace event, which Element::parse drops
RECURSIVE XmlRoundTrip(_)
XmlRoundTrip(node) ==
    LET kept == SelectSeq(node.children,
                    LAMBDA c : IsElement(c) \/ \E i \in 1..Len(c.text) : c.text[i] # <<"c", " ">>)
    IN  [node EXCEPT !.children = [i \in 1..Len(kept) |-> XmlRoundTrip(kept[i])]]

\* Element::write_with_config: the document is one element of the stream
write_with_config(xmlroot) == << <<"xml", xmlroot>> >>

\* Element::parse of the rest of the input
Element_parse(input, pos) ==
    IF pos = Len(input) /\ input[pos][1] = "xml" THEN Ok(XmlRoundTrip(input[pos][2]), pos + 1)
    ELSE Err("XMLParsing")

-----------------------------------------------------------------------------
(* entry.rs                                                                *)
(* Entry is [uuid, title, url, username, password, notes, tags]; notes and *)
(* tags are Options: <<>> or <<value>>.                                    *)

Last(seq) == seq[Len(seq)]

\* get_normalized_hostname: url::Url::parse succeeds on "https://<host>"
\* and gives the host in lower case
get_normalized_hostname(url) ==
    LET n == Len(Str("https://"))
        host == [i \in 1..(Len(url) - n) |-> to_ascii_lowercase(url[n + i])]
    IN  IF Len(url) <= n \/ SubSeq(url, 1, n) # Str("https://") \/ ~IsText(url) THEN <<>>
        ELSE IF Len(host) >= 4 /\ SubSeq(host, 1, 4) = Str("www.") THEN SubSeq(host, 5, Len(host))
        ELSE IF host = Str("invalid.pfp") THEN <<>>
        ELSE host

\* Entry::hostname
Entry_hostname(entry) == get_normalized_hostname(entry.url)

\* Entry::from_xml, as an Option: each field is taken from the last child
\* that sets it
from_xml(element) ==
    LET kids == elements(element)
        uuids == SelectSeq(kids, LAMBDA c : c.name = "UUID")
        field(key) == SelectSeq(kids, LAMBDA c : /\ c.name = "String"
                                                 /\ to_key_value(c) # <<>>
                                                 /\ to_key_value(c)[1].key = Str(key))
        value(key) == to_key_value(Last(field(key)))[1].value
        tags == SelectSeq(kids, LAMBDA c : c.name = "Tags" /\ c.children # <<>>)
    IN  IF uuids = <<>> \/ \E k \in {"Title", "URL", "UserName", "Password"} : field(k) = <<>>
        THEN <<>>
        ELSE <<[uuid |-> text_content(Last(uuids)),
                title |-> value("Title"),
                url |-> value("URL"),
                username |-> value("UserName"),
                password |-> value("Password"),
                notes |-> IF field("Notes") = <<>> THEN <<>> ELSE <<value("Notes")>>,
                tags |-> IF tags = <<>> THEN <<>>
                         ELSE <<split(text_content(Last(tags)), <<"c", ",">>)>>]>>

\* Entry::add_xml_children
add_xml_children(entry, element, protected) ==
    LET string(key, value) ==
            set_key_value(Element("String", <<>>), Str(key), value, key \in protected)
    IN  [element EXCEPT !.children =
            @ \o << string("URL", entry.url), string("Title", entry.title),
                    string("UserName", entry.username), string("Password", entry.password) >>
              \o (IF entry.notes = <<>> THEN <<>> ELSE <<string("Notes", entry.notes[1])>>)
              \o (IF entry.tags = <<>> THEN <<>>
                  ELSE <<set_text_content(Element("Tags", <<>>), join(entry.tags[1], <<"c", ",">>))>>)]

\* Entry::to_xml
to_xml(entry, protected) ==
    add_xml_children(entry,
        add_element(Element("Entry", <<>>), set_text_content(Element("UUID", <<>>), entry.uuid)),
        protected)

-----------------------------------------------------------------------------
(* database_xml.rs                                                         *)
(* DatabaseXML is [xml, inner_header].                                     *)

is_entry(element) == element.name = "Entry"

is_group(element) ==
    /\ element.name = "Group"
    /\ LET child == get_child(element, "EnableSearching")
       IN  child = <<>> \/ to_boolean(child[1]) \in {<<>>, <<TRUE>>}

\* the accept filter of DatabaseXML::protect and unprotect
is_protected(el) ==
    el.name = "Value" /\ \E a \in el.attrs : a[1] = "Protected" /\ a[2] \in {"True", "true", "TRUE"}

\* the callback of DatabaseXML::protect on an accepted element; off is the
\* number of keystream bytes the cipher has produced so far.  The result is
\* [err, el, off].
protect_callback(el, h, off) ==
    With(apply_keystream(h.cipher, h.key, off, text_content(el)), LAMBDA buffer :
        [err |-> "Ok", el |-> set_text_content(el, base64_encode(buffer)),
         off |-> off + Len(buffer)])

\* the callback of DatabaseXML::unprotect on an accepted element
unprotect_callback(el, h, off) ==
    With(base64_decode(text_content(el)), LAMBDA decoded :
        IF decoded.err # "Ok" THEN [err |-> decoded.err, el |-> el, off |-> off]
        ELSE With(apply_keystream(h.cipher, h.key, off, decoded.val), LAMBDA buffer :
                 IF ~IsAscii(buffer) THEN [err |-> "Opaque", el |-> el, off |-> off]
                 ELSE [err |-> "Ok", el |-> set_text_content(el, buffer),
                       off |-> off + Len(buffer)]))

\* ElementModifier::modify_impl with the filter and the callback of
\* DatabaseXML::protect (unprotecting = FALSE) or DatabaseXML::unprotect
\* (TRUE); modify_children is the loop over elements_mut().
RECURSIVE modify_impl(_, _, _, _)
RECURSIVE modify_children(_, _, _, _)
modify_impl(element, h, off, unprotecting) ==
    With(IF ~is_protected(element) THEN [err |-> "Ok", el |-> element, off |-> off]
         ELSE IF unprotecting THEN unprotect_callback(element, h, off)
         ELSE protect_callback(element, h, off), LAMBDA cb :
        IF cb.err # "Ok" THEN cb
        ELSE With(modify_children(cb.el.children, h, cb.off, unprotecting), LAMBDA kids :
                 [err |-> kids.err, el |-> [cb.el EXCEPT !.children = kids.el],
                  off |-> kids.off]))

modify_children(children, h, off, unprotecting) ==
    IF children = <<>> THEN [err |-> "Ok", el |-> <<>>, off |-> off]
    ELSE With(IF IsElement(children[1]) THEN modify_impl(children[1], h, off, unprotecting)
              ELSE [err |-> "Ok", el |-> children[1], off |-> off], LAMBDA first :
             IF first.err # "Ok" THEN [first EXCEPT !.el = <<first.el>> \o Tail(children)]
             ELSE With(modify_children(Tail(children), h, first.off, unprotecting), LAMBDA rest :
                      [err |-> rest.err, el |-> <<first.el>> \o rest.el, off |-> rest.off]))

\* DatabaseXML::new
DatabaseXML_new(input, pos) ==
    Try(InnerHeader_deserialize(input, pos, [cipher |-> <<>>, key |-> <<>>, binaries |-> <<>>]),
        LAMBDA inner_header :
    Try(Element_parse(input, inner_header.pos), LAMBDA parsed :
    With(modify_impl(parsed.val, inner_header.val, 0, TRUE), LAMBDA unprotected :
        IF unprotected.err # "Ok" THEN Err(unprotected.err)
        ELSE Ok([xml |-> unprotected.el, inner_header |-> inner_header.val], parsed.pos))))

\* DatabaseXML::save with the outcome of random_vec in reset_cipher (None
\* when the generator fails); out is what has been written to the output
DatabaseXML_save(dbxml, random_key) ==
    IF random_key = <<>>
    THEN [err |-> "RandomNumberGeneratorFailed", out |-> <<>>,
          dbxml |-> [dbxml EXCEPT !.inner_header.cipher = "ChaCha20"]]
    ELSE
    With([dbxml.inner_header EXCEPT !.cipher = "ChaCha20", !.key = random_key[1]],
         LAMBDA inner_header :
    With(modify_impl(dbxml.xml, inner_header, 0, FALSE), LAMBDA protected :
    With(modify_impl(protected.el, inner_header, 0, TRUE), LAMBDA unprotected :
        [err |-> unprotected.err,
         out |-> InnerHeader_serialize(inner_header) \o write_with_config(protected.el),
         dbxml |-> [xml |-> unprotected.el, inner_header |-> inner_header]])))

\* DatabaseXML::get_root_group, as the Option of the path <<i, j>> of the
\* group: child i of the document element, child j of Root
get_root_group(dbxml) ==
    LET i == index_of(dbxml.xml, "Root")
        j == index_of(dbxml.xml.children[i], "Group")
    IN  IF i = 0 THEN <<>> ELSE IF j = 0 THEN <<>>
        ELSE IF is_group(dbxml.xml.children[i].children[j]) THEN <<i, j>> ELSE <<>>

\* DatabaseXML::get_protected_fields
get_protected_fields(dbxml) ==
    LET meta == get_child(dbxml.xml, "Meta")
        protection == get_child(meta[1], "MemoryProtection")
        on(field) == LET child == get_child(protection[1], field)
                     IN  child # <<>> /\ to_boolean(child[1]) = <<TRUE>>
    IN  IF meta = <<>> THEN {} ELSE IF protection = <<>> THEN {}
        ELSE (IF on("ProtectTitle") THEN {"Title"} ELSE {})
               \cup (IF on("ProtectUserName") THEN {"UserName"} ELSE {})
               \cup (IF on("ProtectPassword") THEN {"Password"} ELSE {})
               \cup (IF on("ProtectURL") THEN {"URL"} ELSE {})
               \cup (IF on("ProtectNotes") THEN {"Notes"} ELSE {})

\* the node at a path of 1-based child indices below an element
RECURSIVE NodeAt(_, _)
NodeAt(el, path) == IF path = <<>> THEN el ELSE NodeAt(el.children[path[1]], Tail(path))

\* ElementIterator::new: the iterator is [context, pos, accepted_current,
\* stack]; context is the Option of the path of the context element below
\* the element the iterator was made for, stack holds <<path, pos>> pairs
ElementIterator_new ==
    [context |-> << <<>> >>, pos |-> 0, accepted_current |-> FALSE, stack |-> <<>>]

\* ElementIterator::empty
ElementIterator_empty ==
    [context |-> <<>>, pos |-> 0, accepted_current |-> FALSE, stack |-> <<>>]

\* Iterator::next for ElementIterator with accept_if(is_entry) and
\* recurse_if(is_group): [item, it], item the Option of the element yielded
\* and it the iterator after the call
RECURSIVE ElementIterator_next(_, _)
ElementIterator_next(root, it) ==
    IF it.context = <<>> THEN [item |-> <<>>, it |-> it]
    ELSE With(NodeAt(root, it.context[1]), LAMBDA context :
        IF it.pos < Len(context.children)
        THEN With(context.children[it.pos + 1], LAMBDA element :
                 IF IsElement(element) /\ ~it.accepted_current /\ is_entry(element)
                 THEN [item |-> <<element>>, it |-> [it EXCEPT !.accepted_current = TRUE]]
                 ELSE IF IsElement(element) /\ is_group(element)
                 THEN ElementIterator_next(root,
                          [context |-> <<Append(it.context[1], it.pos + 1)>>, pos |-> 0,
                           accepted_current |-> FALSE,
                           stack |-> Append(it.stack, <<it.context[1], it.pos>>)])
                 ELSE ElementIterator_next(root,
                          [it EXCEPT !.pos = @ + 1,
                                     !.accepted_current = IF IsElement(element) THEN FALSE ELSE @]))
        ELSE IF it.stack # <<>>
        THEN ElementIterator_next(root,
                 [it EXCEPT !.context = <<Last(it.stack)[1]>>, !.pos = Last(it.stack)[2] + 1,
                            !.stack = SubSeq(it.stack, 1, Len(it.stack) - 1)])
        ELSE [item |-> <<>>, it |-> it])

\* the elements an ElementIterator yields until it returns None
RECURSIVE ElementIterator_collect(_, _)
ElementIterator_collect(root, it) ==
    With(ElementIterator_next(root, it), LAMBDA n :
        IF n.item = <<>> THEN <<>> ELSE <<n.item[1]>> \o ElementIterator_collect(root, n.it))

\* an iterator that accepts the entries of one element and never descends
elements_accepted(context) == SelectSeq(context.children, LAMBDA c : IsElement(c) /\ is_entry(c))

\* XMLHelpers::elements_recursive with recurse_if(is_group) and
\* accept_if(is_entry), run to its end
elements_recursive(context) == ElementIterator_collect(context, ElementIterator_new)

\* DatabaseXML::get_entries
get_entries(dbxml) ==
    LET g == get_root_group(dbxml)
        found == elements_recursive(dbxml.xml.children[g[1]].children[g[2]])
    IN  IF g = <<>> THEN <<>>
        ELSE Flat([i \in 1..Len(found) |-> from_xml(found[i])])

\* DatabaseXML::add_entry; val is the new DatabaseXML
add_entry(dbxml, entry, protected) ==
    LET g == get_root_group(dbxml)
    IN  IF g = <<>> THEN Err("MissingRootGroup")
        ELSE Ok([dbxml EXCEPT !.xml.children[g[1]].children[g[2]].children =
                     Append(@, to_xml(entry, protected))], 0)

\* the insertions of get_aliases into the HashMap, pair by pair
RECURSIVE insert_pairs(_, _)
insert_pairs(pieces, result) ==
    IF Len(pieces) < 2 THEN result
    ELSE insert_pairs(SubSeq(pieces, 3, Len(pieces)), (pieces[1] :> pieces[2]) @@ result)

\* whether a child of CustomData is an item with the key ALIAS_KEY
is_alias_item(el) ==
    IsElement(el) /\ to_key_value(el) # <<>> /\ to_key_value(el)[1].key = Str("PFP_ALIASES")

\* DatabaseXML::get_aliases: a function from alias to hostname
get_aliases(dbxml) ==
    LET meta == get_child(dbxml.xml, "Meta")
        data == get_child(meta[1], "CustomData")
        items == SelectSeq(data[1].children, is_alias_item)
    IN  IF meta = <<>> THEN <<>> ELSE IF data = <<>> THEN <<>> ELSE IF items = <<>> THEN <<>>
        ELSE insert_pairs(split(to_key_value(items[1])[1].value, <<"c", "\n">>), <<>>)

\* DatabaseXML::set_aliases; order is the order in which the HashMap
\* yields its keys
set_aliases(dbxml, aliases, order) ==
    LET value == join(Flat([i \in 1..Len(order) |-> <<order[i], aliases[order[i]]>>]), <<"c", "\n">>)
        xml1 == IF index_of(dbxml.xml, "Meta") = 0
                THEN add_element(dbxml.xml, Element("Meta", <<>>)) ELSE dbxml.xml
        m == IF index_of(dbxml.xml, "Meta") = 0 THEN Len(xml1.children) ELSE index_of(xml1, "Meta")
        meta == IF index_of(xml1.children[m], "CustomData") = 0
                THEN add_element(xml1.children[m], Element("CustomData", <<>>)) ELSE xml1.children[m]
        d == IF index_of(xml1.children[m], "CustomData") = 0 THEN Len(meta.children)
             ELSE index_of(meta, "CustomData")
        retained == SelectSeq(meta.children[d].children, LAMBDA child : ~is_alias_item(child))
        item == set_key_value(Element("Item", <<>>), Str("PFP_ALIASES"), value, FALSE)
        data == [meta.children[d] EXCEPT !.children = Append(retained, item)]
    IN  [dbxml EXCEPT !.xml = [xml1 EXCEPT !.children[m] = [meta EXCEPT !.children[d] = data]]]

MAX_DEPTH == 10

\* the loop of add_alias without its test for the alias itself
RECURSIVE real_hostname_unguarded(_, _, _, _)
real_hostname_unguarded(aliases, alias, hostname, depth) ==
    IF hostname \notin DOMAIN aliases THEN <<hostname>>
    ELSE IF depth >= MAX_DEPTH THEN <<>>
    ELSE real_hostname_unguarded(aliases, alias, aliases[hostname], depth + 1)

\* the loop of add_alias with one more hop allowed
RECURSIVE real_hostname_eleven(_, _, _, _)
real_hostname_eleven(aliases, alias, hostname, depth) ==
    IF hostname \notin DOMAIN aliases THEN <<hostname>>
    ELSE IF aliases[hostname] = alias \/ depth > MAX_DEPTH THEN <<>>
    ELSE real_hostname_eleven(aliases, alias, aliases[hostname], depth + 1)

\* the loop of DatabaseXML::add_alias: the Option of the hostname the alias
\* is to be mapped to, None when add_alias returns without a change
RECURSIVE real_hostname(_, _, _, _)
real_hostname(aliases, alias, hostname, depth) ==
    IF hostname \notin DOMAIN aliases THEN <<hostname>>
    ELSE IF aliases[hostname] = alias \/ depth >= MAX_DEPTH THEN <<>>
    ELSE real_hostname(aliases, alias, aliases[hostname], depth + 1)

\* DatabaseXML::add_alias
add_alias(dbxml, alias, host, order) ==
    LET aliases == get_aliases(dbxml)
        real == real_hostname(aliases, alias, host, 0)
    IN  IF real = <<>> THEN dbxml
        ELSE set_aliases(dbxml, (alias :> real[1]) @@ aliases, order)

\* DatabaseXML::remove_alias
remove_alias(dbxml, alias, order) ==
    LET aliases == get_aliases(dbxml)
    IN  IF alias \notin DOMAIN aliases THEN dbxml
        ELSE set_aliases(dbxml, [a \in (DOMAIN aliases) \ {alias} |-> aliases[a]], order)

-----------------------------------------------------------------------------
(* database.rs                                                             *)
(* Database is [version, header, header_data, header_hmac]; header_data is *)
(* the content of the Cell, empty after take().                            *)

\* libflate's gzip encoder: the compressed data is one element of the stream
gzip_encode(data) == << <<"gz", data>> >>

\* libflate's gzip decoder; its errors are std::io::Error
gzip_decode(data) ==
    IF Len(data) = 1 /\ data[1][1] = "gz" THEN Ok(data[1][2], 0) ELSE Err("Io")

\* Serialize for Database: out is the bytes written, db the database with
\* the recorded header_data
Database_serialize(this) ==
    LET header_data == DatabaseVersion_serialize(this.version) \o OuterHeader_serialize(this.header)
    IN  [out |-> header_data \o DigestBytes(<<"Sha256", header_data>>, 32),
         db |-> [this EXCEPT !.header_data = header_data]]

\* Database::deserialize without the comparison of the header hash
Database_deserialize_unverified(input) ==
    Try(DatabaseVersion_deserialize(input, 1), LAMBDA version :
    Try(OuterHeader_deserialize(input, version.pos), LAMBDA header :
    Try(deserialize_vec(input, header.pos, 32), LAMBDA header_hash :
    Try(deserialize_vec(input, header_hash.pos, 32), LAMBDA header_hmac :
        Ok([version |-> version.val, header |-> header.val,
            header_data |-> SubSeq(input, 1, header.pos - 1),
            header_hmac |-> header_hmac.val], header_hmac.pos)))))

\* Deserialize for Database
Database_deserialize(input) ==
    Try(DatabaseVersion_deserialize(input, 1), LAMBDA version :
    Try(OuterHeader_deserialize(input, version.pos), LAMBDA header :
    With(SubSeq(input, 1, header.pos - 1), LAMBDA header_data :
    Try(deserialize_vec(input, header.pos, 32), LAMBDA header_hash :
    Try(deserialize_vec(input, header_hash.pos, 32), LAMBDA header_hmac :
        IF DigestBytes(<<"Sha256", header_data>>, 32) # header_hash.val
        THEN Err("HeaderChecksumMismatch")
        ELSE Ok([version |-> version.val, header |-> header.val,
                 header_data |-> header_data, header_hmac |-> header_hmac.val],
                header_hmac.pos))))))

\* Database::get_header_hmac; take() leaves the Cell empty
get_header_hmac(this, ks) == DigestBytes(Hmac(ks, -1, this.header_data), 32)

\* Database::unlock without the comparison of the header HMAC
Database_unlock_unverified(this, main_password) ==
    LET ks == Keys_derive(main_password, this.header)
    IN  IF ks.err # "Ok" THEN [err |-> ks.err, keys |-> <<>>, db |-> this]
        ELSE [err |-> "Ok", keys |-> <<ks.val>>, db |-> [this EXCEPT !.header_data = <<>>]]

\* Database::unlock: [err, keys, db]
Database_unlock(this, main_password) ==
    LET ks == Keys_derive(main_password, this.header)
        taken == [this EXCEPT !.header_data = <<>>]
    IN  IF ks.err # "Ok" THEN [err |-> ks.err, keys |-> <<>>, db |-> this]
        ELSE IF get_header_hmac(this, ks.val) # this.header_hmac
             THEN [err |-> "InvalidCredentials", keys |-> <<>>, db |-> taken]
        ELSE [err |-> "Ok", keys |-> <<ks.val>>, db |-> taken]

\* Database::decrypt: the set of its possible results
Database_decrypt(this, input, pos, ks) ==
    With(HmacBlockStreamReader(input, pos, ks, 0, <<>>), LAMBDA read :
        IF read.err # "Ok" THEN {read}
        ELSE { Try(d, LAMBDA decrypted :
               Try(IF this.header.compression = "Gzip" THEN gzip_decode(decrypted.val)
                   ELSE decrypted, LAMBDA data :
               Try(DatabaseXML_new(data.val, 1), LAMBDA xmldb : Ok(xmldb.val, read.pos)))) :
                 d \in BlockCipher_decrypt(this.header.cipher, read.val,
                                           ks.encryption, this.header.iv) })

\* Database::save with the outcomes of random_vec in reset_iv and in
\* reset_cipher: [err, out, db, dbxml], out being what has been written
\* a save that writes the outer header before the IV is drawn
Database_save_stale(this, ks, dbxml, random_iv, random_key) ==
    IF random_iv = <<>>
    THEN [err |-> "RandomNumberGeneratorFailed", out |-> <<>>, db |-> this, dbxml |-> dbxml]
    ELSE
    With(Database_serialize(this), LAMBDA serialized :
    With(serialized.out \o get_header_hmac(serialized.db, ks), LAMBDA head :
    With([serialized.db EXCEPT !.header_data = <<>>, !.header.iv = random_iv[1]], LAMBDA db2 :
    With(DatabaseXML_save(dbxml, random_key), LAMBDA saved :
        IF saved.err # "Ok"
        THEN [err |-> saved.err, out |-> head, db |-> db2, dbxml |-> saved.dbxml]
        ELSE
    With(BlockCipher_encrypt(db2.header.cipher,
             IF db2.header.compression = "Gzip" THEN gzip_encode(saved.out) ELSE saved.out,
             ks.encryption, db2.header.iv), LAMBDA encrypted :
        IF encrypted.err # "Ok"
        THEN [err |-> encrypted.err, out |-> head, db |-> db2, dbxml |-> saved.dbxml]
        ELSE [err |-> "Ok", out |-> head \o HmacBlockStreamWriter(ks, 0, encrypted.val),
              db |-> db2, dbxml |-> saved.dbxml])))))

Database_save(this, ks, dbxml, random_iv, random_key) ==
    IF random_iv = <<>>
    THEN [err |-> "RandomNumberGeneratorFailed", out |-> <<>>, db |-> this, dbxml |-> dbxml]
    ELSE
    With(Database_serialize([this EXCEPT !.header.iv = random_iv[1]]), LAMBDA serialized :
    With(serialized.out \o get_header_hmac(serialized.db, ks), LAMBDA head :
    With([serialized.db EXCEPT !.header_data = <<>>], LAMBDA db2 :
    With(DatabaseXML_save(dbxml, random_key), LAMBDA saved :
        IF saved.err # "Ok"
        THEN [err |-> saved.err, out |-> head, db |-> db2, dbxml |-> saved.dbxml]
        ELSE
    With(BlockCipher_encrypt(db2.header.cipher,
             IF db2.header.compression = "Gzip" THEN gzip_encode(saved.out) ELSE saved.out,
             ks.encryption, db2.header.iv), LAMBDA encrypted :
        IF encrypted.err # "Ok"
        THEN [err |-> encrypted.err, out |-> head, db |-> db2, dbxml |-> saved.dbxml]
        ELSE [err |-> "Ok", out |-> head \o HmacBlockStreamWriter(ks, 0, encrypted.val),
              db |-> db2, dbxml |-> saved.dbxml])))))

-----------------------------------------------------------------------------
(* The databases and inputs of the model                                   *)

MaxSaves == 1       \* saves of the library caller in one run
MaxEdits == 1       \* edits of the view between load and save

Passwords == {"secret", "guess"}
MainPassword == "secret"

\* the outcomes of random_vec(n): None when the generator fails
random_vec(n) == {<<>>, <<Repeat(17, n)>>}

\* cipher, compression and Argon2 iterations of the databases on disk; the
\* last one carries an iteration count Argon2 is not defined for
Configs ==
    { [cipher |-> "ChaCha20", compression |-> "Gzip", iterations |-> 2],
      [cipher |-> "Aes256", compression |-> "None", iterations |-> 2],
      [cipher |-> "ChaCha20", compression |-> "Gzip", iterations |-> 0] }

InitialDatabase(cfg) ==
    [version |-> [major |-> to_le_bytes(4, 2), minor |-> to_le_bytes(1, 2)],
     header |-> [cipher |-> cfg.cipher, compression |-> cfg.compression,
                 main_seed |-> Repeat(7, 32), iv |-> Repeat(9, iv_size(cfg.cipher)),
                 kdf_parameters |-> [algorithm |-> "ID", salt |-> Repeat(5, 16),
                                     version |-> "Version13",
                                     parallelism |-> to_le_bytes(2, 4),
                                     memory |-> to_le_bytes(16, 4),
                                     iterations |-> to_le_bytes(cfg.iterations, 4)],
                 custom_data |-> <<>>],
     header_data |-> <<>>, header_hmac |-> <<>>]

\* a KeePass document with password protection on and an empty root group
InitialXML(entries) ==
    [xml |-> Element("KeePassFile",
                << Element("Meta", << Element("MemoryProtection",
                       << set_text_content(Element("ProtectPassword", <<>>), Str("True")) >>) >>),
                   Element("Root", << Element("Group",
                       << set_text_content(Element("EnableSearching", <<>>), Str("null")) >>
                         \o [i \in 1..Len(entries) |-> to_xml(entries[i], {"Password"})]) >>) >>),
     inner_header |-> [cipher |-> "ChaCha20", key |-> Repeat(3, 64), binaries |-> <<>>]]

\* the file a KDBX 4 writer produces for a database, a view and a password;
\* with parameters no key can be derived from, the bytes after the header
\* hash are arbitrary
InitialFile(cfg, entries) ==
    LET database == InitialDatabase(cfg)
        ks == Keys_derive(MainPassword, database.header)
    IN  IF ks.err # "Ok" THEN Database_serialize(database).out \o Repeat(0, 32)
        ELSE Database_save(database, ks.val, InitialXML(entries),
                           <<database.header.iv>>, <<Repeat(3, 64)>>).out

\* what a client sees of a DatabaseXML: its entries and its alias map
View(dbxml) == [entries |-> get_entries(dbxml), aliases |-> get_aliases(dbxml)]

\* one bit of a byte flipped
FlipBit(b, bit) ==
    IF ~IsN(b) THEN <<"flip", bit, b>>
    ELSE IF (b[2] \div (2 ^ bit)) % 2 = 1 THEN N(b[2] - 2 ^ bit) ELSE N(b[2] + 2 ^ bit)

\* the errors a parser can end in when it takes a byte of a digest or of a
\* ciphertext for a number: the value of that byte decides
ParserErrors ==
    {"Io", "Encoding", "CorruptDatabase", "UnsupportedVersion", "UnsupportedHeaderFieldType",
     "InvalidFieldSize", "UnsupportedBlockCipher", "UnsupportedCompression",
     "UnsupportedVariantListVersion", "UnsupportedVariantType", "KdfFieldMissingOrInvalid",
     "AesKDFUnsupported", "UnsupportedKDF", "KDFParameterExceedsRange", "HeaderFieldsMissing"}

Outcomes(r, errors) == IF r.err = "Opaque" THEN {Err(e) : e \in errors} ELSE {r}

-----------------------------------------------------------------------------
(* The library used directly: a caller that deserializes a file, unlocks   *)
(* it, decrypts it, edits the view, saves it and loads the result again.   *)
(* A single bit of the file may get flipped before it is read.             *)

\* hist: op is the last operation, valid whether keys can be derived for the
\* file the run starts from, hdr the length of its header region, flip the
\* position of the flipped byte, password the one last used to unlock,
\* before the Database the last unlock was called on, saved the view the
\* last save was called with, edits and saves count the calls
NoHist == [op |-> "none", valid |-> TRUE, hdr |-> 0, flip |-> <<>>, password |-> <<>>,
           before |-> <<>>, saved |-> <<>>, edits |-> 0, saves |-> 0]

InitFile ==
    \E cfg \in Configs :
        /\ file = InitialFile(cfg, <<>>)
        /\ pc = "deserialize"
        /\ inpos = 0
        /\ db = <<>> /\ keys = <<>> /\ xml = <<>>
        /\ res = "Ok"
        /\ stdin = <<>> /\ stdout = <<>>
        /\ hist = [NoHist EXCEPT !.hdr = Len(Database_serialize(InitialDatabase(cfg)).out) + 32,
                                 !.valid = Argon2Valid(InitialDatabase(cfg).header.kdf_parameters)]

Tamper(p, bit) ==
    /\ pc = "deserialize" /\ hist.flip = <<>> /\ hist.saves = 0
    /\ file' = [file EXCEPT ![p] = FlipBit(@, bit)]
    /\ hist' = [hist EXCEPT !.flip = <<p>>, !.op = "tamper"]
    /\ UNCHANGED <<pc, inpos, db, keys, xml, res, stdin, stdout>>

Deserialize ==
    /\ pc = "deserialize"
    /\ \E r \in Outcomes(Database_deserialize(file), ParserErrors \cup {"HeaderChecksumMismatch"}) :
          /\ res' = r.err
          /\ db' = IF r.err = "Ok" THEN <<r.val>> ELSE <<>>
          /\ inpos' = IF r.err = "Ok" THEN r.pos - 1 ELSE inpos
          /\ pc' = IF r.err = "Ok" THEN "unlock" ELSE "done"
    /\ keys' = <<>> /\ xml' = <<>>
    /\ hist' = [hist EXCEPT !.op = "deserialize"]
    /\ UNCHANGED <<file, stdin, stdout>>

Unlock(password) ==
    /\ pc = "unlock"
    /\ LET r == Database_unlock(db[1], password)
       IN  /\ res' = r.err
           /\ keys' = r.keys
           /\ db' = <<r.db>>
           /\ pc' = IF r.err = "Ok" THEN "decrypt" ELSE "done"
    /\ hist' = [hist EXCEPT !.op = "unlock", !.password = <<password>>, !.before = db]
    /\ UNCHANGED <<file, inpos, xml, stdin, stdout>>

Decrypt ==
    /\ pc = "decrypt"
    /\ \E d \in Database_decrypt(db[1], file, inpos + 1, keys[1]) :
       \E r \in Outcomes(d, ParserErrors \cup {"XMLParsing"}) :
          /\ res' = r.err
          /\ xml' = IF r.err = "Ok" THEN <<r.val>> ELSE <<>>
          /\ inpos' = IF r.err = "Ok" THEN r.pos - 1 ELSE inpos
          /\ pc' = IF r.err = "Ok" THEN "loaded" ELSE "done"
    /\ hist' = [hist EXCEPT !.op = "decrypt"]
    /\ UNCHANGED <<file, db, keys, stdin, stdout>>

\* Entry::new followed by Entry::set_hostname, with the uuid generate_uuid
\* has drawn
Entry_new(uuid, host, title, username, password) ==
    [uuid |-> uuid, title |-> title, url |-> Str("https://") \o host, username |-> username,
     password |-> password, notes |-> <<>>, tags |-> <<>>]

\* the tag lists a caller gives an entry: none, one tag, one empty tag
TagChoices == {<<>>, << <<Str("t")>> >>, << << <<>> >> >>}

EditAddEntry(title, tags) ==
    /\ pc = "loaded" /\ hist.edits < MaxEdits /\ hist.saves < MaxSaves
    /\ LET entry == [Entry_new(Str("1"), Str("a"), title, Str("u"), Str("p")) EXCEPT !.tags = tags]
           r == add_entry(xml[1], entry, get_protected_fields(xml[1]))
       IN  /\ res' = r.err
           /\ xml' = IF r.err = "Ok" THEN <<r.val>> ELSE xml
    /\ hist' = [hist EXCEPT !.op = "edit", !.edits = @ + 1]
    /\ UNCHANGED <<file, pc, inpos, db, keys, stdin, stdout>>

Orders(S) == {o \in [1..Cardinality(S) -> S] : \A i, j \in 1..Cardinality(S) : o[i] = o[j] => i = j}

EditAddAlias(alias, host) ==
    /\ pc = "loaded" /\ hist.edits < MaxEdits /\ hist.saves < MaxSaves
    /\ \E order \in Orders(DOMAIN get_aliases(xml[1]) \cup {alias}) :
          xml' = <<add_alias(xml[1], alias, host, order)>>
    /\ res' = "Ok"
    /\ hist' = [hist EXCEPT !.op = "edit", !.edits = @ + 1]
    /\ UNCHANGED <<file, pc, inpos, db, keys, stdin, stdout>>

Save ==
    /\ pc = "loaded" /\ hist.saves < MaxSaves
    /\ \E random_iv \in random_vec(iv_size(db[1].header.cipher)),
          random_key \in random_vec(key_size("ChaCha20")) :
       \E r \in {Database_save(db[1], keys[1], xml[1], random_iv, random_key)} :
          /\ file' = r.out
          /\ db' = <<r.db>>
          /\ xml' = <<r.dbxml>>
          /\ res' = r.err
          /\ pc' = IF r.err = "Ok" THEN "deserialize" ELSE "done"
    /\ inpos' = 0
    /\ hist' = [hist EXCEPT !.op = "save", !.saves = @ + 1, !.saved = <<View(xml[1])>>,
                            !.password = <<>>]
    /\ UNCHANGED <<keys, stdin, stdout>>

NextFile ==
    \/ \E p \in 1..Len(file), bit \in 0..7 : Tamper(p, bit)
    \/ Deserialize
    \/ \E password \in Passwords : Unlock(password)
    \/ Decrypt
    \/ \E title \in {Str("T")}, tags \in TagChoices : EditAddEntry(title, tags)
    \/ \E alias \in {Str("a")}, host \in {Str("b")} : EditAddAlias(alias, host)
    \/ Save

SpecFile == InitFile /\ [][NextFile]_vars

-----------------------------------------------------------------------------
(* Properties of the library (checked under SpecFile)                      *)

\* C1: the view that Database::decrypt returns after save, deserialize and
\* unlock has the entries and the aliases of the view that was saved.
C1_RoundTrip ==
    (hist.op = "decrypt" /\ res = "Ok" /\ hist.saved # <<>>) => View(xml[1]) = hist.saved[1]

\* C2: with one bit flipped after the header region, Database::decrypt
\* fails and its error is CorruptDatabase.
C2_FlipAfterHeader ==
    (hist.op = "decrypt" /\ hist.flip # <<>> /\ hist.flip[1] > hist.hdr) => res = "CorruptDatabase"

\* the run has flipped a bit of the header region of a valid file and has
\* got as far as deserialize and unlock with the right password take it
HeaderFlipDone ==
    /\ hist.valid /\ hist.flip # <<>> /\ hist.flip[1] <= hist.hdr
    /\ \/ hist.op = "deserialize" /\ res # "Ok"
       \/ hist.op = "unlock" /\ hist.password = <<MainPassword>>

\* C3 as stated: after a bit flip in the header region, deserialize and
\* unlock end in HeaderChecksumMismatch or InvalidCredentials.
C3_Original == HeaderFlipDone => res \in {"HeaderChecksumMismatch", "InvalidCredentials"}

\* C3: after a bit flip in the header region of a valid file, deserialize
\* followed by unlock with the right password never succeeds: a flip in the
\* stored header HMAC ends in InvalidCredentials, a flip in the stored
\* SHA-256 in HeaderChecksumMismatch, and a flip in the version or the
\* header fields in HeaderChecksumMismatch when the flipped bytes still
\* parse and leave room for hash and HMAC, and else in the error of the
\* parser.
C3_HeaderFlip ==
    HeaderFlipDone =>
        LET version == DatabaseVersion_deserialize(file, 1)
            header == OuterHeader_deserialize(file, version.pos)
            parses == /\ version.err = "Ok" /\ header.err = "Ok"
                      /\ deserialize_vec(file, header.pos, 64).err = "Ok"
        IN  /\ res # "Ok"
            /\ hist.flip[1] > hist.hdr - 32 => res = "InvalidCredentials"
            /\ hist.flip[1] <= hist.hdr - 32 /\ hist.flip[1] > hist.hdr - 64
                  => res = "HeaderChecksumMismatch"
            /\ hist.flip[1] <= hist.hdr - 64 =>
                  /\ parses => res = "HeaderChecksumMismatch"
                  /\ ~parses => res \in ParserErrors \cup {"HeaderChecksumMismatch"}

C3_Witness == HeaderFlipDone /\ hist.flip[1] <= hist.hdr - 64 /\ res = "UnsupportedVersion"

\* C4 as stated: unlock returns keys only if the header HMAC matches and
\* InvalidCredentials otherwise, and reads nothing from the input.
C4_Original ==
    hist.op = "unlock" =>
        /\ res \in {"Ok", "InvalidCredentials"}
        /\ inpos = Len(hist.before[1].header_data) + 64

\* C4: unlock on a freshly deserialized database returns the derived keys
\* exactly when the HMAC-SHA256 with block index -1 of the recorded header
\* bytes equals the stored header HMAC; when they differ it returns
\* InvalidCredentials, and when the keys cannot be derived KeyDerivation;
\* the input stays at the end of the stored header HMAC.
C4_Unlock ==
    hist.op = "unlock" =>
        LET before == hist.before[1]
            derived == Keys_derive(hist.password[1], before.header)
            matches == DigestBytes(<<"HmacSha256", <<"Sha512", -1, derived.val.hmac>>,
                                     before.header_data>>, 32) = before.header_hmac
        IN  /\ derived.err # "Ok" => res = "KeyDerivation" /\ keys = <<>>
            /\ derived.err = "Ok" /\ matches => res = "Ok" /\ keys = <<derived.val>>
            /\ derived.err = "Ok" /\ ~matches => res = "InvalidCredentials" /\ keys = <<>>
            /\ inpos = Len(before.header_data) + 64

C4_Witness == hist.op = "unlock" /\ res = "InvalidCredentials" /\ hist.flip # <<>>

-----------------------------------------------------------------------------
(* native_host: the request handlers of action_handler.rs                  *)
(* Each request is handled from start to end before the next is read       *)
(* (native_host.rs: run_server), so a handler is one step.  file is the    *)
(* database file; res is the error code of the response, "Ok" for none.    *)

\* Keys::to_string: the two keys in base64
Keys_to_string(ks) == << <<"b64", ks.encryption>>, <<"b64", ks.hmac>> >>

\* Keys::from_string; a SHA-256 digest has KEY_SIZE bytes, a SHA-512 digest
\* HMAC_SIZE bytes
Keys_from_string(encryption, hmac) ==
    IF encryption[1] # "b64" \/ hmac[1] # "b64" THEN Err("InvalidCredentials")
    ELSE IF encryption[2][1] # "Sha256" \/ hmac[2][1] # "Sha512" THEN Err("InvalidCredentials")
    ELSE Ok([encryption |-> encryption[2], hmac |-> hmac[2]], 0)

\* get_keys
get_keys(array) ==
    IF Len(array) < 2 \/ Len(array) > 2 THEN Err("InvalidMessage")
    ELSE Keys_from_string(array[1], array[2])

\* get_database_xml: the set of its possible results; val is [database,
\* database_xml, keys], pos the number of bytes of the file consumed
get_database_xml(input, array) ==
    With(get_keys(array), LAMBDA ks :
        IF ks.err # "Ok" THEN {ks}
        ELSE
    With(Database_deserialize(input), LAMBDA database :
        IF database.err # "Ok"
        THEN Outcomes(database, ParserErrors \cup {"HeaderChecksumMismatch"})
        ELSE UNION { Outcomes(Try(d, LAMBDA database_xml :
                                  Ok([database |-> database.val,
                                      database_xml |-> database_xml.val,
                                      keys |-> ks.val], database_xml.pos - 1)),
                              ParserErrors \cup {"XMLParsing"}) :
                       d \in Database_decrypt(database.val, input, database.pos, ks.val) }))

\* what can go wrong while save_database runs: File::create fails, the
\* random number generator fails in reset_iv or in reset_cipher, or the
\* data buffered by the BufWriter cannot be written when it is dropped
Failures == {"none", "create", "iv", "cipher", "flush"}

\* save_database: [err, file].  File::create truncates the file; what
\* Database::save has written is in the BufWriter, whose drop writes it to
\* the file and ignores an error
save_database(content, database, database_xml, ks, fail) ==
    IF fail = "create" THEN [err |-> "Io", file |-> content]
    ELSE With(Database_save(database, ks, database_xml,
                  IF fail = "iv" THEN <<>>
                  ELSE <<Repeat(17, iv_size(database.header.cipher))>>,
                  IF fail = "cipher" THEN <<>> ELSE <<Repeat(17, key_size("ChaCha20"))>>),
              LAMBDA saved :
             [err |-> saved.err, file |-> IF fail = "flush" THEN <<>> ELSE saved.out])

NoRequest == [op |-> "none", before |-> <<>>, keys |-> <<>>, hostname |-> <<>>, title |-> <<>>,
              alias |-> <<>>, fail |-> "none", response |-> <<>>, flip |-> <<>>]

InitHost ==
    /\ file = InitialFile(CHOOSE cfg \in Configs : cfg.cipher = "Aes256",
                          <<Entry_new(Str("0"), Str("c"), Str("T"), Str("u"), Str("p"))>>)
    /\ pc = "serving"
    /\ inpos = 0
    /\ db = <<>> /\ keys = <<>> /\ xml = <<>>
    /\ res = "Ok"
    /\ stdin = <<>> /\ stdout = <<>>
    /\ hist = NoRequest

\* handle, Request::Unlock
HandleUnlock(password) ==
    /\ \E d \in Outcomes(Database_deserialize(file), ParserErrors \cup {"HeaderChecksumMismatch"}) :
       \E unlocked \in {IF d.err # "Ok" THEN [err |-> d.err, keys |-> <<>>]
                        ELSE Database_unlock(d.val, password)} :
          /\ res' = unlocked.err
          /\ inpos' = IF d.err # "Ok" THEN 0 ELSE d.pos - 1
          /\ hist' = [NoRequest EXCEPT !.op = "unlock", !.before = file, !.flip = hist.flip,
                          !.response = IF unlocked.err = "Ok"
                                       THEN Keys_to_string(unlocked.keys[1]) ELSE <<>>]
    /\ UNCHANGED <<file, pc, db, keys, xml, stdin, stdout>>

\* handle, Request::GetEntries
HandleGetEntries(array, host) ==
    /\ \E r \in get_database_xml(file, array) :
          LET aliases == get_aliases(r.val.database_xml)
              target == IF host \in DOMAIN aliases THEN aliases[host] ELSE host
              entries == SelectSeq(get_entries(r.val.database_xml),
                                   LAMBDA entry : eq_ignore_ascii_case(Entry_hostname(entry), target))
          IN  /\ res' = r.err
              /\ inpos' = IF r.err = "Ok" THEN r.pos ELSE 0
              /\ hist' = [NoRequest EXCEPT !.op = "get-entries", !.before = file, !.keys = array,
                              !.hostname = host, !.flip = hist.flip,
                              !.response = IF r.err # "Ok" THEN <<>>
                                           ELSE <<[hostname |-> target, entries |-> entries]>>]
    /\ UNCHANGED <<file, pc, db, keys, xml, stdin, stdout>>

\* handle, Request::AddEntry; generate_uuid draws the uuid "1" unless the
\* random number generator fails
HandleAddEntry(array, host, title) ==
    /\ \E r \in get_database_xml(file, array) :
          LET exists == \E i \in 1..Len(get_entries(r.val.database_xml)) :
                            LET entry == get_entries(r.val.database_xml)[i]
                            IN  /\ eq_ignore_ascii_case(Entry_hostname(entry), host)
                                /\ eq_ignore_ascii_case(entry.title, title)
              entry == Entry_new(Str("1"), host, title, Str("u"), Str("p"))
              added == add_entry(r.val.database_xml, entry, get_protected_fields(r.val.database_xml))
              request == [NoRequest EXCEPT !.op = "add-entry", !.before = file, !.keys = array,
                                           !.hostname = host, !.title = title]
          IN  /\ inpos' = IF r.err = "Ok" THEN r.pos ELSE 0
              /\ IF r.err # "Ok" \/ exists
                 THEN /\ res' = IF r.err # "Ok" THEN r.err ELSE "EntryExists"
                      /\ file' = file
                      /\ hist' = request
                 ELSE \E fail \in Failures \cup {"uuid"} :
                      \E done \in {IF fail = "uuid"
                                   THEN [err |-> "RandomNumberGeneratorFailed", file |-> file]
                                   ELSE IF added.err # "Ok" THEN [err |-> added.err, file |-> file]
                                   ELSE save_database(file, r.val.database, added.val,
                                                      r.val.keys, fail)} :
                         /\ res' = done.err
                         /\ file' = done.file
                         /\ hist' = [request EXCEPT !.fail = fail,
                                        !.response = IF done.err = "Ok" THEN <<entry.uuid>>
                                                     ELSE <<>>]
    /\ UNCHANGED <<pc, db, keys, xml, stdin, stdout>>

\* handle, Request::AddAlias
HandleAddAlias(array, alias, host) ==
    /\ \E r \in get_database_xml(file, array) :
          LET request == [NoRequest EXCEPT !.op = "add-alias", !.before = file, !.keys = array,
                                           !.alias = alias, !.hostname = host]
          IN  IF r.err # "Ok"
              THEN /\ res' = r.err
                   /\ file' = file
                   /\ inpos' = 0
                   /\ hist' = request
              ELSE \E order \in Orders(DOMAIN get_aliases(r.val.database_xml) \cup {alias}),
                      fail \in Failures :
                   \E saved \in {save_database(file, r.val.database,
                                     add_alias(r.val.database_xml, alias, host, order),
                                     r.val.keys, fail)} :
                      /\ res' = saved.err
                      /\ file' = saved.file
                      /\ inpos' = r.pos
                      /\ hist' = [request EXCEPT !.fail = fail]
    /\ UNCHANGED <<pc, db, keys, xml, stdin, stdout>>

\* the file gets damaged on disk: one bit of the stored header HMAC flips
DamageHeaderHmac(p, bit) ==
    /\ hist.flip = <<>>
    /\ hist.op = "none"
    /\ file' = [file EXCEPT ![p] = FlipBit(@, bit)]
    /\ hist' = [hist EXCEPT !.flip = <<p>>]
    /\ UNCHANGED <<pc, inpos, db, keys, xml, res, stdin, stdout>>

\* the keys a client sends: those of the main password, those of another
ClientKeys ==
    {Keys_to_string(Keys_derive(password,
         InitialDatabase(CHOOSE cfg \in Configs : cfg.cipher = "Aes256").header).val) :
       password \in Passwords}

\* the stored header HMAC is the last 32 bytes of the header region
StoredHmac(content) ==
    With(Database_deserialize(content), LAMBDA database :
        IF database.err # "Ok" THEN {} ELSE {database.pos - 32, database.pos - 1})

NewEntries == {<<Str("c"), Str("t")>>, <<Str("C"), Str("T")>>, <<Str("c"), Str("S")>>}
NewAliases == {<<Str("a"), Str("b")>>, <<Str("b"), Str("c")>>}

Next ==
    \/ \E password \in Passwords : HandleUnlock(password)
    \/ \E array \in ClientKeys, host \in {Str("a")} : HandleGetEntries(array, host)
    \/ \E array \in ClientKeys, new \in NewEntries : HandleAddEntry(array, new[1], new[2])
    \/ \E array \in ClientKeys, new \in NewAliases : HandleAddAlias(array, new[1], new[2])
    \/ \E p \in StoredHmac(file), bit \in {0} : DamageHeaderHmac(p, bit)

Spec == InitHost /\ [][Next]_vars

-----------------------------------------------------------------------------
(* DatabaseXML in memory: add_alias and remove_alias called in any order   *)
(* on a database whose alias map starts empty.                             *)

Hosts == {Str("a"), Str("b"), Str("c")}

NoCall == [op |-> "none", alias |-> <<>>, hostname |-> <<>>, before |-> <<>>]

InitXml ==
    /\ xml = <<InitialXML(<<>>)>>
    /\ pc = "memory"
    /\ file = <<>> /\ inpos = 0 /\ db = <<>> /\ keys = <<>>
    /\ res = "Ok"
    /\ stdin = <<>> /\ stdout = <<>>
    /\ hist = NoCall

AddAlias(alias, host) ==
    /\ \E order \in Orders(DOMAIN get_aliases(xml[1]) \cup {alias}) :
          xml' = <<add_alias(xml[1], alias, host, order)>>
    /\ res' = "Ok"
    /\ hist' = [op |-> "add_alias", alias |-> alias, hostname |-> host, before |-> xml[1]]
    /\ UNCHANGED <<file, pc, inpos, db, keys, stdin, stdout>>

RemoveAlias(alias) ==
    /\ \E order \in Orders(DOMAIN get_aliases(xml[1]) \ {alias}) :
          xml' = <<remove_alias(xml[1], alias, order)>>
    /\ res' = "Ok"
    /\ hist' = [op |-> "remove_alias", alias |-> alias, hostname |-> <<>>, before |-> xml[1]]
    /\ UNCHANGED <<file, pc, inpos, db, keys, stdin, stdout>>

NextXml ==
    \/ \E alias \in Hosts, host \in Hosts : AddAlias(alias, host)
    \/ \E alias \in Hosts : RemoveAlias(alias)

SpecXml == InitXml /\ [][NextXml]_vars

\* the hostname reached from a hostname by following n mappings, an Option
RECURSIVE Follow(_, _, _)
Follow(aliases, hostname, n) ==
    IF n = 0 THEN <<hostname>>
    ELSE IF hostname \in DOMAIN aliases THEN Follow(aliases, aliases[hostname], n - 1)
    ELSE <<>>

\* following one mapping or more leads from one hostname to another
LeadsTo(aliases, from, to) ==
    \E n \in 1..Cardinality(DOMAIN aliases) : Follow(aliases, from, n) = <<to>>

\* C8: after any sequence of add_alias and remove_alias calls on a database
\* whose alias map was empty, the alias map has no cycle: following the
\* mappings from an alias never leads back to it, not even in one step.
C8_NoCycle ==
    \A alias \in DOMAIN get_aliases(xml[1]) : ~LeadsTo(get_aliases(xml[1]), alias, alias)

\* C9: add_alias(alias, hostname) called when the chain of mappings from
\* hostname leads to alias, as add_alias("b", "a") after add_alias("a", "b"),
\* changes neither the alias map nor the XML tree and reports no error.
C9_NoOp ==
    (hist.op = "add_alias" /\ LeadsTo(get_aliases(hist.before), hist.hostname, hist.alias))
        => xml[1] = hist.before /\ res = "Ok"

C9_Witness ==
    /\ hist.op = "add_alias" /\ hist.alias = Str("b") /\ hist.hostname = Str("a")
    /\ get_aliases(hist.before) = (Str("a") :> Str("b"))
    /\ get_aliases(xml[1]) = (Str("a") :> Str("b"))

-----------------------------------------------------------------------------
(* Properties of the request handlers                                      *)

\* the database file as a request found it, read with the keys of the request
Found == {r \in get_database_xml(hist.before, hist.keys) : r.err = "Ok"}

\* C5: in a request that carries keys the stored header HMAC is checked
\* with those keys before the block stream is read: on a file whose stored
\* header HMAC is not the HMAC of its header under the keys of the request,
\* the request fails.
C5_HeaderHmacChecked ==
    LET database == Database_deserialize(hist.before)
        ks == get_keys(hist.keys)
    IN  (/\ hist.op \in {"get-entries", "add-entry", "add-alias"}
         /\ database.err = "Ok" /\ ks.err = "Ok"
         /\ get_header_hmac(database.val, ks.val) # database.val.header_hmac)
            => res # "Ok"

\* C6: a write request is atomic on the database file: either it succeeds
\* and the file holds the complete new database, or it fails with an error
\* and the file is as it was.
C6_Atomic ==
    hist.op \in {"add-entry", "add-alias"}
        => \/ res = "Ok" /\ \E r \in get_database_xml(file, hist.keys) : r.err = "Ok"
           \/ res # "Ok" /\ file = hist.before

\* C7: with the alias map that add_alias("a", "b") followed by
\* add_alias("b", "c") leaves, get-entries for "a" answers with the hostname
\* "c" and the entries of "c".
C7_AliasChain ==
    (hist.op = "get-entries" /\ hist.hostname = Str("a") /\ res = "Ok")
        => \A r \in Found :
              get_aliases(r.val.database_xml) = (Str("a") :> Str("b") @@ Str("b") :> Str("c"))
                  => hist.response[1].hostname = Str("c")

\* a letter in lower case, for the letters of the hostnames and titles used
Fold(b) ==
    IF b = <<"c", "C">> THEN <<"c", "c">>
    ELSE IF b = <<"c", "T">> THEN <<"c", "t">>
    ELSE IF b = <<"c", "S">> THEN <<"c", "s">>
    ELSE b

SameLetters(a, b) == Len(a) = Len(b) /\ \A i \in 1..Len(a) : Fold(a[i]) = Fold(b[i])

\* the request names a hostname and a title an entry of the file has, but
\* for the case of letters
Collides ==
    \E r \in Found : \E i \in 1..Len(get_entries(r.val.database_xml)) :
        /\ SameLetters(Entry_hostname(get_entries(r.val.database_xml)[i]), hist.hostname)
        /\ SameLetters(get_entries(r.val.database_xml)[i].title, hist.title)

\* C10: add-entry with a hostname and a title that an entry of the database
\* has, compared without regard to the case of ASCII letters, fails with
\* EntryExists and leaves the file as it was.
C10_EntryExists ==
    (hist.op = "add-entry" /\ Collides) => res = "EntryExists" /\ file = hist.before

C10_Witness ==
    /\ hist.op = "add-entry" /\ Collides /\ res = "EntryExists"
    /\ hist.title = Str("t") /\ hist.hostname = Str("c")

-----------------------------------------------------------------------------
(* native_host: Request::DuplicateEntry                                    *)
(* A u32 is kept as its decimal digits, most significant first and without *)
(* leading zeros, so that u32::MAX and the step past it are exact.         *)

DigitChars == <<"0", "1", "2", "3", "4", "5", "6", "7", "8", "9">>
IsDigit(b) == b[1] = "c" /\ \E d \in 1..10 : DigitChars[d] = b[2]
DigitValue(b) == (CHOOSE d \in 1..10 : DigitChars[d] = b[2]) - 1

\* u32::MAX = 4294967295
U32_MAX == <<4, 2, 9, 4, 9, 6, 7, 2, 9, 5>>

\* the order of two numbers given by their digits
Less(a, b) ==
    \/ Len(a) < Len(b)
    \/ Len(a) = Len(b) /\ \E i \in 1..Len(a) : a[i] < b[i] /\ \A j \in 1..(i - 1) : a[j] = b[j]

RECURSIVE StripZeros(_)
StripZeros(ds) == IF Len(ds) > 1 /\ ds[1] = 0 THEN StripZeros(Tail(ds)) ELSE ds

\* str::parse::<u32>, as an Option: an optional '+', then one decimal digit
\* or more, the value being at most u32::MAX
parse_u32(str) ==
    With(IF str # <<>> /\ str[1] = <<"c", "+">> THEN Tail(str) ELSE str, LAMBDA digits :
        IF digits = <<>> \/ \E i \in 1..Len(digits) : ~IsDigit(digits[i]) THEN <<>>
        ELSE With(StripZeros([i \in 1..Len(digits) |-> DigitValue(digits[i])]), LAMBDA value :
                 IF Less(U32_MAX, value) THEN <<>> ELSE <<value>>))

\* the number after a number
RECURSIVE Successor(_)
Successor(ds) ==
    IF ds = <<>> THEN <<1>>
    ELSE IF Last(ds) < 9 THEN SubSeq(ds, 1, Len(ds) - 1) \o <<Last(ds) + 1>>
    ELSE Successor(SubSeq(ds, 1, Len(ds) - 1)) \o <<0>>

\* `index += 1` on a u32, as an Option: past u32::MAX the addition wraps to
\* zero in a build without overflow checks and panics (None) in a build
\* with them
add_one(index, wraps) ==
    IF index # U32_MAX THEN <<Successor(index)>>
    ELSE IF wraps THEN << <<0>> >> ELSE <<>>

\* format!("{index}")
format_u32(index) == [i \in 1..Len(index) |-> <<"c", DigitChars[index[i] + 1]>>]

\* str::rsplit_once(" #"), as an Option
rsplit_once(str) ==
    With({i \in 1..(Len(str) - 1) : str[i] = <<"c", " ">> /\ str[i + 1] = <<"c", "#">>},
         LAMBDA at :
        IF at = {} THEN <<>>
        ELSE With(CHOOSE i \in at : \A j \in at : j <= i, LAMBDA i :
                 <<[base_name |-> SubSeq(str, 1, i - 1), index |-> SubSeq(str, i + 2, Len(str))]>>))

\* get_title_base
get_title_base(title) ==
    With(rsplit_once(title), LAMBDA parts :
        IF parts # <<>> /\ parse_u32(parts[1].index) # <<>>
        THEN [base_name |-> parts[1].base_name, index |-> parse_u32(parts[1].index)[1]]
        ELSE [base_name |-> title, index |-> <<1>>])

\* format!("{base_name} #{index}")
format_title(base_name, index) == base_name \o Chars(<<" ", "#">>) \o format_u32(index)

\* the loop of Request::DuplicateEntry: the Option of the title found, None
\* when `index += 1` panics
RECURSIVE unused_title(_, _, _, _)
unused_title(base_name, index, existing_titles, wraps) ==
    IF format_title(base_name, index) \notin existing_titles
    THEN <<format_title(base_name, index)>>
    ELSE With(add_one(index, wraps), LAMBDA next :
             IF next = <<>> THEN <<>>
             ELSE unused_title(base_name, next[1], existing_titles, wraps))

\* DatabaseXML::get_entry, as an Option
get_entry(dbxml, uuid) ==
    With(SelectSeq(get_entries(dbxml), LAMBDA entry : entry.uuid = uuid), LAMBDA found :
        IF found = <<>> THEN <<>> ELSE <<found[1]>>)

\* the titles of the entries of a hostname
existing_titles(dbxml, hostname) ==
    {entry.title : entry \in {e \in {get_entries(dbxml)[i] : i \in 1..Len(get_entries(dbxml))} :
                                 Entry_hostname(e) = hostname}}

\* the part of Request::DuplicateEntry between get_database_xml and
\* save_database, with the uuid generate_uuid has drawn: val is the new
\* DatabaseXML; "Panic" is the outcome of an overflow that is checked
duplicate_entry(dbxml, uuid, new_uuid, wraps) ==
    With(get_entry(dbxml, uuid), LAMBDA entry :
        IF entry = <<>> THEN Err("NoSuchEntry")
        ELSE IF new_uuid = <<>> THEN Err("RandomNumberGeneratorFailed")
        ELSE
    With(get_title_base(entry[1].title), LAMBDA parts :
    With(add_one(parts.index, wraps), LAMBDA index :
        IF index = <<>> THEN Err("Panic")
        ELSE
    With(unused_title(parts.base_name, index[1],
                      existing_titles(dbxml, Entry_hostname(entry[1])), wraps), LAMBDA title :
        IF title = <<>> THEN Err("Panic")
        ELSE add_entry(dbxml, [entry[1] EXCEPT !.uuid = new_uuid[1], !.title = title[1]],
                       get_protected_fields(dbxml))))))

MaxEntries == 3     \* entries in the file beyond which no entry is duplicated

\* the values generate_uuid draws (None when the random number generator
\* fails); a draw never repeats a uuid of the file
UuidPool == {Str("1"), Str("2")}

NoDuplicate == [op |-> "none", before |-> <<>>, keys |-> <<>>, uuid |-> <<>>, fail |-> "none",
                response |-> <<>>]

\* the databases the requests start from, as lists of <<uuid, hostname, title>>
Numbered(title, digits) == Str(title) \o Chars(<<" ", "#">>) \o Chars(digits)

DuplicateDatabases ==
    { << <<"0", "c", Str("T")>> >>,
      << <<"0", "c", Str("T")>>, <<"9", "C", Numbered("T", <<"2">>)>> >>,
      << <<"0", "c", Numbered("T", <<"2">>)>>, <<"9", "a", Numbered("T", <<"3">>)>> >>,
      << <<"0", "c", Numbered("T", <<"0", "7">>)>> >>,
      << <<"0", "c", Numbered("T", <<"x">>)>> >>,
      << <<"0", "c", Numbered("T", <<"4", "2", "9", "4", "9", "6", "7", "2", "9", "5">>)>> >> }

InitDuplicate ==
    \E entries \in DuplicateDatabases :
        /\ file = InitialFile(CHOOSE cfg \in Configs : cfg.cipher = "Aes256",
                      [i \in 1..Len(entries) |->
                          Entry_new(Str(entries[i][1]), Str(entries[i][2]), entries[i][3],
                                    Str("u"), Str("p"))])
        /\ pc = "serving"
        /\ inpos = 0
        /\ db = <<>> /\ keys = <<>> /\ xml = <<>>
        /\ res = "Ok"
        /\ stdin = <<>> /\ stdout = <<>>
        /\ hist = NoDuplicate

\* handle, Request::DuplicateEntry; a panic ends the process
HandleDuplicateEntry(array, uuid) ==
    /\ pc = "serving"
    /\ \E r \in get_database_xml(file, array) :
          IF r.err # "Ok"
          THEN /\ res' = r.err
               /\ file' = file
               /\ pc' = pc
               /\ hist' = [NoDuplicate EXCEPT !.op = "duplicate-entry", !.before = file,
                                              !.keys = array, !.uuid = uuid]
          ELSE /\ Len(get_entries(r.val.database_xml)) < MaxEntries
               /\ \E new_uuid \in {<<>>} \cup
                        {<<u>> : u \in UuidPool \ {get_entries(r.val.database_xml)[i].uuid :
                                            i \in 1..Len(get_entries(r.val.database_xml))}},
                     wraps \in BOOLEAN :
                  \E copied \in {duplicate_entry(r.val.database_xml, uuid, new_uuid, wraps)} :
                  \E fail \in IF copied.err # "Ok" THEN {"none"} ELSE Failures :
                  \E done \in {IF copied.err # "Ok" THEN [err |-> copied.err, file |-> file]
                               ELSE save_database(file, r.val.database, copied.val,
                                                  r.val.keys, fail)} :
                     /\ res' = done.err
                     /\ file' = done.file
                     /\ pc' = IF done.err = "Panic" THEN "crashed" ELSE pc
                     /\ hist' = [NoDuplicate EXCEPT !.op = "duplicate-entry", !.before = file,
                                    !.keys = array, !.uuid = uuid, !.fail = fail,
                                    !.response = IF done.err = "Ok" THEN new_uuid ELSE <<>>]
    /\ inpos' = 0
    /\ UNCHANGED <<db, keys, xml, stdin, stdout>>

NextDuplicate ==
    \E array \in ClientKeys, uuid \in {Str("0"), Str("1"), Str("7")} :
        HandleDuplicateEntry(array, uuid)

SpecDuplicate == InitDuplicate /\ [][NextDuplicate]_vars

\* base and number of a title as the request is described: the number is
\* the decimal suffix after the last " #", or 1 when there is none
TitleParts(title) ==
    With(rsplit_once(title), LAMBDA parts :
        IF /\ parts # <<>> /\ parts[1].index # <<>>
           /\ \A i \in 1..Len(parts[1].index) : IsDigit(parts[1].index[i])
        THEN [base |-> parts[1].base_name,
              k |-> StripZeros([i \in 1..Len(parts[1].index) |-> DigitValue(parts[1].index[i])])]
        ELSE [base |-> title, k |-> <<1>>])

\* the smallest number from n on for which "<base> #N" is not among titles
RECURSIVE SmallestUnused(_, _, _)
SmallestUnused(base, n, titles) ==
    IF format_title(base, n) \notin titles THEN n
    ELSE SmallestUnused(base, Successor(n), titles)

\* the entries of the file as the request has left it
FoundAfter == {r \in get_database_xml(file, hist.keys) : r.err = "Ok"}

\* C11: duplicate-entry appends a copy of the entry with the given uuid; the
\* copy has a uuid no entry had, the title "<base> #N" with N the smallest
\* number from k + 1 on that no entry of the same hostname has as "<base> #N",
\* and the other fields of the source.
C11_Duplicate ==
    (hist.op = "duplicate-entry" /\ res = "Ok") =>
        \A before \in Found : \A after \in FoundAfter :
            LET old == get_entries(before.val.database_xml)
                new == get_entries(after.val.database_xml)
                source == get_entry(before.val.database_xml, hist.uuid)[1]
                copy == new[Len(new)]
                parts == TitleParts(source.title)
            IN  /\ Len(new) = Len(old) + 1
                /\ SubSeq(new, 1, Len(old)) = old
                /\ \A i \in 1..Len(old) : old[i].uuid # copy.uuid
                /\ copy.title = format_title(parts.base,
                                    SmallestUnused(parts.base, Successor(parts.k),
                                        existing_titles(before.val.database_xml,
                                                        Entry_hostname(source))))
                /\ [copy EXCEPT !.uuid = source.uuid, !.title = source.title] = source

-----------------------------------------------------------------------------
(* native_host.rs: run_server; action.rs: the Action a message is parsed   *)
(* into.  A message is [json, request_id, action, request]: json tells     *)
(* whether the bytes are a JSON object, the other three are the Options of *)
(* the fields "requestId", "action" and "request"; the value of "request"  *)
(* is a record of parameters.                                              *)

\* the variants of Request, in kebab-case
RequestNames ==
    {"get-protocol", "unlock", "get-entries", "get-all-entries", "get-sites", "add-entry",
     "update-entry", "duplicate-entry", "remove-entry", "duplicate-kdf-parameters",
     "derive-key", "add-alias", "remove-alias", "set-aliases", "import"}

\* the fields the parameters of a request must have
RequiredFields(name) ==
    CASE name = "get-entries" -> {"keys", "hostname"}
      [] name = "unlock" -> {"password"}
      [] name = "get-protocol" -> {}
      [] OTHER -> {"keys"}

\* Request::deserialize from {action: request}
Request_deserialize(name, params) ==
    IF name \notin RequestNames THEN Err("Json")
    ELSE IF ~(RequiredFields(name) \subseteq DOMAIN params) THEN Err("Json")
    ELSE Ok([name |-> name, params |-> params], 0)

\* Deserialize for Action
Action_deserialize(message) ==
    IF ~message.json THEN Err("Json")
    ELSE IF message.action = <<>> \/ message.request = <<>> \/ message.request_id = <<>>
    THEN Err("Json")
    ELSE Try(Request_deserialize(message.action[1], message.request[1]), LAMBDA request :
             Ok([request_id |-> message.request_id[1], request |-> request.val], 0))

\* handle for Request::GetProtocol without a version and for
\* Request::GetEntries: the set of its outcomes [err, response]; "Panic" is
\* a panic of the handler
handle(action, content) ==
    CASE action.request.name = "get-protocol" -> {[err |-> "Ok", response |-> <<"1.0">>]}
      [] action.request.name = "get-entries" ->
            { IF r.err # "Ok" THEN [err |-> r.err, response |-> <<>>]
              ELSE With(get_aliases(r.val.database_xml), LAMBDA aliases :
                   With(IF action.request.params.hostname \in DOMAIN aliases
                        THEN aliases[action.request.params.hostname]
                        ELSE action.request.params.hostname, LAMBDA hostname :
                       [err |-> "Ok",
                        response |->
                            <<[hostname |-> hostname,
                               entries |-> SelectSeq(get_entries(r.val.database_xml),
                                   LAMBDA entry :
                                       eq_ignore_ascii_case(Entry_hostname(entry), hostname))]>>])) :
                r \in get_database_xml(content, action.request.params.keys) }

\* error_response
error_response(request_id, err) ==
    [request_id |-> request_id, success |-> FALSE, response |-> <<>>, error_code |-> <<err>>]

\* the block `let response = { ... }` of run_server: the set of responses,
\* <<>> standing for a panic
respond(message, content) ==
    With(Action_deserialize(message), LAMBDA action :
        IF action.err # "Ok" THEN {error_response("", "InvalidMessage")}
        ELSE { IF done.err = "Panic" THEN <<>>
               ELSE IF done.err # "Ok" THEN error_response(action.val.request_id, done.err)
               ELSE [request_id |-> action.val.request_id, success |-> TRUE,
                     response |-> done.response, error_code |-> <<>>] :
                 done \in handle(action.val, content) })

MaxMessages == 2    \* messages the server loop reads in one run

\* a JSON object with the fields given as Options
Message(request_id, action, request) ==
    [json |-> TRUE, request_id |-> request_id, action |-> action, request |-> request]

\* the messages a client sends: bytes that are no JSON, a request without
\* requestId, an unknown action, a get-entries without hostname, and the
\* well-formed get-protocol and get-entries with the right and a wrong key
Messages ==
    { [json |-> FALSE, request_id |-> <<>>, action |-> <<>>, request |-> <<>>],
      Message(<<>>, <<"get-protocol">>, << <<>> >>),
      Message(<<"r1">>, <<"frobnicate">>, << <<>> >>),
      Message(<<"r2">>, <<"get-protocol">>, << <<>> >>) }
    \cup { Message(<<"r3">>, <<"get-entries">>, <<[keys |-> array]>>) : array \in ClientKeys }
    \cup { Message(<<"r4">>, <<"get-entries">>, <<[keys |-> array, hostname |-> Str("c")]>>) :
             array \in ClientKeys }

\* a file of another KDBX 4 writer: header hash, header HMAC and block
\* HMACs are those of the main password, the cipher is ChaCha20 and the IV
\* field has the 16 bytes of an AES IV
ForeignFile ==
    LET cfg == CHOOSE c \in Configs : c.cipher = "ChaCha20" /\ c.iterations = 2
        database == [InitialDatabase(cfg) EXCEPT !.header.iv = Repeat(9, 16)]
        ks == Keys_derive(MainPassword, database.header).val
        serialized == Database_serialize(database)
    IN  serialized.out \o get_header_hmac(serialized.db, ks)
          \o HmacBlockStreamWriter(ks, 0, Repeat(0, 8))

InitServer ==
    /\ file \in { InitialFile(CHOOSE cfg \in Configs : cfg.cipher = "Aes256",
                              <<Entry_new(Str("0"), Str("c"), Str("T"), Str("u"), Str("p"))>>),
                  ForeignFile }
    /\ pc = "read"
    /\ inpos = 0
    /\ db = <<>> /\ keys = <<>> /\ xml = <<>>
    /\ res = "Ok"
    /\ stdin = <<>> /\ stdout = <<>>
    /\ hist = NoRequest

\* run_server: the two read_exact calls that take the next message
ReadMessage(message) ==
    /\ pc = "read"
    /\ Len(stdin) < MaxMessages
    /\ stdin' = Append(stdin, message)
    /\ pc' = "handle"
    /\ hist' = [NoRequest EXCEPT !.op = "read"]
    /\ UNCHANGED <<file, inpos, db, keys, xml, res, stdout>>

\* run_server: a read_exact call fails (the input is closed) and `?` returns
ReadFails ==
    /\ pc = "read"
    /\ pc' = "ended"
    /\ res' = "Io"
    /\ hist' = [NoRequest EXCEPT !.op = "read-failed"]
    /\ UNCHANGED <<file, inpos, db, keys, xml, stdin, stdout>>

\* run_server: the message is parsed and handled; a panic of the handler
\* unwinds through run_server and main
HandleMessage ==
    /\ pc = "handle"
    /\ \E response \in respond(stdin[Len(stdin)], file) :
          /\ pc' = IF response = <<>> THEN "crashed" ELSE "write"
          /\ res' = IF response = <<>> THEN "Panic"
                    ELSE IF response.success THEN "Ok" ELSE response.error_code[1]
          /\ hist' = [NoRequest EXCEPT !.op = "handle",
                          !.response = IF response = <<>> THEN <<>> ELSE <<response>>]
    /\ UNCHANGED <<file, inpos, db, keys, xml, stdin, stdout>>

\* run_server: the two write_all calls; an error of one of them returns
\* from the loop
WriteResponse(ok) ==
    /\ pc = "write"
    /\ pc' = IF ok THEN "read" ELSE "ended"
    /\ stdout' = IF ok THEN Append(stdout, hist.response[1]) ELSE stdout
    /\ res' = IF ok THEN res ELSE "Io"
    /\ hist' = [NoRequest EXCEPT !.op = IF ok THEN "write" ELSE "write-failed"]
    /\ UNCHANGED <<file, inpos, db, keys, xml, stdin>>

NextServer ==
    \/ \E message \in Messages : ReadMessage(message)
    \/ ReadFails
    \/ HandleMessage
    \/ \E ok \in BOOLEAN : WriteResponse(ok)

SpecServer == InitServer /\ [][NextServer]_vars

\* C12: the server loop has written one response for each message it has
\* read before it reads the next one, a failed request is answered with
\* success false and an errorCode, and the loop is left only by an error of
\* a read or of a write
C12_OneResponse ==
    /\ pc = "read" => Len(stdout) = Len(stdin)
    /\ pc \in {"handle", "write"} => Len(stdout) = Len(stdin) - 1
    /\ \A i \in 1..Len(stdout) : ~stdout[i].success => stdout[i].error_code # <<>>
    /\ pc \notin {"read", "handle", "write"} => hist.op \in {"read-failed", "write-failed"}

\* C13: each response written carries the requestId of the message it
\* answers, whenever that message is a JSON object with a requestId
C13_RequestId ==
    \A i \in 1..Len(stdout) :
        (stdin[i].json /\ stdin[i].request_id # <<>>) =>
            stdout[i].request_id = stdin[i].request_id[1]

-----------------------------------------------------------------------------
(* DatabaseXML in memory: save, get_entries, remove_entry and update_entry *)
(* called by a user of the library on documents with nested groups.        *)

MaxCalls == 2       \* calls on one document

\* DatabaseXML::save to an output whose write calls may fail: fail tells
\* which write returns an error, that of inner_header.serialize ("header"),
\* that of write_with_config ("xml") or none
DatabaseXML_save_to(dbxml, random_key, fail) ==
    IF random_key = <<>> \/ fail = "none" THEN DatabaseXML_save(dbxml, random_key)
    ELSE
    With([dbxml.inner_header EXCEPT !.cipher = "ChaCha20", !.key = random_key[1]],
         LAMBDA inner_header :
        IF fail = "header"
        THEN [err |-> "Io", out |-> <<>>, dbxml |-> [dbxml EXCEPT !.inner_header = inner_header]]
        ELSE With(modify_impl(dbxml.xml, inner_header, 0, FALSE), LAMBDA protected :
                 [err |-> IF protected.err # "Ok" THEN protected.err ELSE "Io",
                  out |-> InnerHeader_serialize(inner_header),
                  dbxml |-> [xml |-> protected.el, inner_header |-> inner_header]]))

\* a group with its EnableSearching child
Group(searching, children) ==
    Element("Group",
        <<set_text_content(Element("EnableSearching", <<>>), Str(searching))>> \o children)

\* the Entry element add_entry stores for a uuid and a title
StoredEntry(uuid, title) ==
    to_xml(Entry_new(Str(uuid), Str("c"), Str(title), Str("u"), Str("p")), {"Password"})

\* an Entry element as other KeePass programs write it: with an older
\* version of itself in History, with tags and with a String of another key
RichEntry(uuid, title) ==
    LET entry == [Entry_new(Str(uuid), Str("c"), Str(title), Str("u"), Str("p"))
                     EXCEPT !.tags = << <<Str("t")>> >>]
    IN  [to_xml(entry, {"Password"}) EXCEPT !.children =
            <<Element("History", <<StoredEntry(uuid, "H")>>)>> \o @
              \o <<set_key_value(Element("String", <<>>), Str("X"), Str("x"), FALSE)>>]

\* the document with the given children of Root
Doc(groups) == [InitialXML(<<>>) EXCEPT !.xml.children[2].children = groups]

\* the documents of the model
TreeDocs ==
    { Doc(<<Group("null", <<StoredEntry("0", "T"), StoredEntry("1", "S")>>)>>),
      Doc(<<Group("null", << Text(Str(" ")),
                             Group("true", <<StoredEntry("1", "S"), Text(Str(" ")),
                                             Group("null", <<StoredEntry("2", "R")>>)>>),
                             StoredEntry("0", "T"),
                             Group("false", <<StoredEntry("3", "Q")>>),
                             Element("Entry", <<set_text_content(Element("UUID", <<>>), Str("4"))>>) >>)>>),
      Doc(<<Group("null", << RichEntry("0", "T"), StoredEntry("0", "S") >>)>>),
      Doc(<<Group("null", << Group("null", <<StoredEntry("0", "S")>>), RichEntry("0", "T") >>)>>),
      Doc(<<Group("false", <<StoredEntry("0", "T")>>)>>),
      Doc(<<Element("Times", <<>>)>>),
      Doc(<<Group("null", <<>>), Group("null", <<StoredEntry("0", "T")>>)>>) }

NoTreeCall ==
    [op |-> "none", before |-> <<>>, uuid |-> <<>>, entry |-> <<>>, protected |-> {},
     fail |-> "none", response |-> <<>>, calls |-> 0]

InitTree ==
    /\ xml \in {<<doc>> : doc \in TreeDocs}
    /\ pc = "memory"
    /\ file = <<>> /\ inpos = 0 /\ db = <<>> /\ keys = <<>>
    /\ res = "Ok"
    /\ stdin = <<>> /\ stdout = <<>>
    /\ hist = NoTreeCall

\* a call of DatabaseXML::save; what it has written is kept in file
TreeSave(random_key, fail) ==
    /\ hist.calls < MaxCalls
    /\ \E saved \in {DatabaseXML_save_to(xml[1], random_key, fail)} :
          /\ xml' = <<saved.dbxml>>
          /\ file' = saved.out
          /\ res' = saved.err
    /\ hist' = [NoTreeCall EXCEPT !.op = "save", !.before = xml[1], !.fail = fail,
                    !.calls = hist.calls + 1]
    /\ UNCHANGED <<pc, inpos, db, keys, stdin, stdout>>

\* a call of DatabaseXML::get_entries, collected
TreeGetEntries ==
    /\ hist.calls < MaxCalls
    /\ res' = "Ok"
    /\ hist' = [NoTreeCall EXCEPT !.op = "get_entries", !.before = xml[1],
                    !.response = get_entries(xml[1]), !.calls = hist.calls + 1]
    /\ UNCHANGED <<file, pc, inpos, db, keys, xml, stdin, stdout>>

\* a callback that removes the first entry among the children, whatever
\* its uuid
remove_first(element, uuid) ==
    With(SelectSeq([i \in 1..Len(element.children) |-> i],
                   LAMBDA i : is_entry(element.children[i])), LAMBDA hits :
        IF hits = <<>> THEN [err |-> "Ok", el |-> element]
        ELSE [err |-> "NoSuchEntry",
              el |-> [element EXCEPT !.children = RemoveAt(@, hits[1])]])

\* the callback of DatabaseXML::remove_entry on a group: [err, el]; the
\* error NoSuchEntry is what the callback returns to stop the modifier
remove_callback(element, uuid) ==
    With(SelectSeq([i \in 1..Len(element.children) |-> i],
                   LAMBDA i : /\ IsElement(element.children[i])
                              /\ is_entry(element.children[i])
                              /\ from_xml(element.children[i]) # <<>>
                              /\ from_xml(element.children[i])[1].uuid = uuid), LAMBDA hits :
        IF hits = <<>> THEN [err |-> "Ok", el |-> element]
        ELSE [err |-> "NoSuchEntry",
              el |-> [element EXCEPT !.children = RemoveAt(@, hits[1])]])

\* ElementModifier::modify_impl with recurse_if(is_group), accept_if(is_group)
\* and the callback of DatabaseXML::remove_entry; remove_children is the
\* loop over elements_mut()
RECURSIVE remove_impl(_, _)
RECURSIVE remove_children(_, _)
remove_impl(element, uuid) ==
    With(IF is_group(element) THEN remove_callback(element, uuid)
         ELSE [err |-> "Ok", el |-> element], LAMBDA cb :
        IF cb.err # "Ok" \/ ~is_group(cb.el) THEN cb
        ELSE With(remove_children(cb.el.children, uuid), LAMBDA kids :
                 [err |-> kids.err, el |-> [cb.el EXCEPT !.children = kids.el]]))

remove_children(children, uuid) ==
    IF children = <<>> THEN [err |-> "Ok", el |-> <<>>]
    ELSE With(IF IsElement(children[1]) THEN remove_impl(children[1], uuid)
              ELSE [err |-> "Ok", el |-> children[1]], LAMBDA first :
             IF first.err # "Ok" THEN [first EXCEPT !.el = <<first.el>> \o Tail(children)]
             ELSE With(remove_children(Tail(children), uuid), LAMBDA rest :
                      [err |-> rest.err, el |-> <<first.el>> \o rest.el]))

\* DatabaseXML::remove_entry: [err, dbxml]
remove_entry(dbxml, uuid) ==
    With(get_root_group(dbxml), LAMBDA g :
        IF g = <<>> THEN [err |-> "MissingRootGroup", dbxml |-> dbxml]
        ELSE With(remove_impl(dbxml.xml.children[g[1]].children[g[2]], uuid), LAMBDA r :
                 IF r.err # "Ok"
                 THEN [err |-> "Ok",
                       dbxml |-> [dbxml EXCEPT !.xml.children[g[1]].children[g[2]] = r.el]]
                 ELSE [err |-> "NoSuchEntry", dbxml |-> dbxml]))

\* the uuids a caller asks for
TreeUuids == {Str("0"), Str("2"), Str("3"), Str("4"), Str("7")}

\* a call of DatabaseXML::remove_entry
TreeRemoveEntry(uuid) ==
    /\ hist.calls < MaxCalls
    /\ \E r \in {remove_entry(xml[1], uuid)} :
          /\ xml' = <<r.dbxml>>
          /\ res' = r.err
    /\ hist' = [NoTreeCall EXCEPT !.op = "remove_entry", !.before = xml[1], !.uuid = uuid,
                    !.calls = hist.calls + 1]
    /\ UNCHANGED <<file, pc, inpos, db, keys, stdin, stdout>>

\* the keys of the String children Entry::update_xml replaces
KnownFields == {Str("URL"), Str("Title"), Str("UserName"), Str("Password"), Str("Notes")}

\* whether a child of an Entry element is a String of one of these keys
is_known_string(child) ==
    /\ IsElement(child) /\ child.name = "String"
    /\ to_key_value(child) # <<>> /\ to_key_value(child)[1].key \in KnownFields

\* Entry::update_xml
update_xml(entry, element, protected) ==
    add_xml_children(entry,
        [element EXCEPT !.children = SelectSeq(@, LAMBDA child : ~is_known_string(child))],
        protected)

\* the callback of DatabaseXML::update_entry on an entry: [err, el]; the
\* error NoSuchEntry is what the callback returns to stop the modifier
update_callback(element, entry, protected) ==
    IF \E i \in 1..Len(element.children) :
           /\ IsElement(element.children[i]) /\ element.children[i].name = "UUID"
           /\ text_content(element.children[i]) = entry.uuid
    THEN [err |-> "NoSuchEntry", el |-> update_xml(entry, element, protected)]
    ELSE [err |-> "Ok", el |-> element]

\* ElementModifier::modify_impl with recurse_if(is_group), accept_if(is_entry)
\* and the callback of DatabaseXML::update_entry; update_children is the
\* loop over elements_mut()
RECURSIVE update_impl(_, _, _)
RECURSIVE update_children(_, _, _)
update_impl(element, entry, protected) ==
    With(IF is_entry(element) THEN update_callback(element, entry, protected)
         ELSE [err |-> "Ok", el |-> element], LAMBDA cb :
        IF cb.err # "Ok" \/ ~is_group(cb.el) THEN cb
        ELSE With(update_children(cb.el.children, entry, protected), LAMBDA kids :
                 [err |-> kids.err, el |-> [cb.el EXCEPT !.children = kids.el]]))

update_children(children, entry, protected) ==
    IF children = <<>> THEN [err |-> "Ok", el |-> <<>>]
    ELSE With(IF IsElement(children[1]) THEN update_impl(children[1], entry, protected)
              ELSE [err |-> "Ok", el |-> children[1]], LAMBDA first :
             IF first.err # "Ok" THEN [first EXCEPT !.el = <<first.el>> \o Tail(children)]
             ELSE With(update_children(Tail(children), entry, protected), LAMBDA rest :
                      [err |-> rest.err, el |-> <<first.el>> \o rest.el]))

\* DatabaseXML::update_entry: [err, dbxml]
update_entry(dbxml, entry, protected) ==
    With(get_root_group(dbxml), LAMBDA g :
        IF g = <<>> THEN [err |-> "MissingRootGroup", dbxml |-> dbxml]
        ELSE With(update_impl(dbxml.xml.children[g[1]].children[g[2]], entry, protected),
                  LAMBDA r :
                 IF r.err # "Ok"
                 THEN [err |-> "Ok",
                       dbxml |-> [dbxml EXCEPT !.xml.children[g[1]].children[g[2]] = r.el]]
                 ELSE [err |-> "NoSuchEntry", dbxml |-> dbxml]))

\* the entries a caller updates with: new field values, with and without
\* notes and tags
TreeUpdates ==
    { [Entry_new(uuid, Str("d"), Str("N"), Str("v"), Str("q"))
          EXCEPT !.notes = extra[1], !.tags = extra[2]] :
        uuid \in {Str("0"), Str("3"), Str("7")},
        extra \in { << <<>>, <<>> >>, << <<Str("m")>>, <<>> >>, << <<>>, << <<Str("s")>> >> >> } }

\* a call of DatabaseXML::update_entry
TreeUpdateEntry(entry, protected) ==
    /\ hist.calls < MaxCalls
    /\ \E r \in {update_entry(xml[1], entry, protected)} :
          /\ xml' = <<r.dbxml>>
          /\ res' = r.err
    /\ hist' = [NoTreeCall EXCEPT !.op = "update_entry", !.before = xml[1],
                    !.entry = <<entry>>, !.protected = protected, !.calls = hist.calls + 1]
    /\ UNCHANGED <<file, pc, inpos, db, keys, stdin, stdout>>

NextTree ==
    \/ \E random_key \in random_vec(64), fail \in {"none", "header", "xml"} :
          TreeSave(random_key, fail)
    \/ TreeGetEntries
    \/ \E uuid \in TreeUuids : TreeRemoveEntry(uuid)
    \/ \E entry \in TreeUpdates, protected \in {{}, {"Password"}} :
          TreeUpdateEntry(entry, protected)

SpecTree == InitTree /\ [][NextTree]_vars

\* the texts of the Value elements marked Protected, in document order
RECURSIVE ProtectedTexts(_)
ProtectedTexts(el) ==
    (IF is_protected(el) THEN <<text_content(el)>> ELSE <<>>)
      \o Flat([i \in 1..Len(el.children) |->
                 IF IsElement(el.children[i]) THEN ProtectedTexts(el.children[i]) ELSE <<>>])

\* C14: when DatabaseXML::save has returned, with Ok or with an error, the
\* Value elements marked Protected hold the texts they held before the call
C14_Restored ==
    hist.op = "save" => ProtectedTexts(xml[1].xml) = ProtectedTexts(hist.before.xml)

\* the paths of all nodes below an element, the element itself included
RECURSIVE PathsOf(_)
PathsOf(el) ==
    {<<>>} \cup UNION { {<<i>> \o p : p \in PathsOf(el.children[i])} : i \in 1..Len(el.children) }

\* document order of two different paths: a node comes before the nodes
\* below it and before the nodes below its later siblings
LexLess(p, q) ==
    \/ Len(p) < Len(q) /\ SubSeq(q, 1, Len(p)) = p
    \/ \E i \in 1..Len(p) : /\ i <= Len(q) /\ SubSeq(p, 1, i - 1) = SubSeq(q, 1, i - 1)
                            /\ p[i] < q[i]

RECURSIVE SortPaths(_)
SortPaths(paths) ==
    IF paths = {} THEN <<>>
    ELSE LET first == CHOOSE p \in paths : \A q \in paths \ {p} : LexLess(p, q)
         IN  <<first>> \o SortPaths(paths \ {first})

\* whether an Entry element has a String child with that key and a value
HasField(el, key) ==
    \E i \in 1..Len(el.children) :
        /\ el.children[i].name = "String"
        /\ \E j \in 1..Len(el.children[i].children) :
              /\ el.children[i].children[j].name = "Key"
              /\ text_content(el.children[i].children[j]) = Str(key)
        /\ \E j \in 1..Len(el.children[i].children) : el.children[i].children[j].name = "Value"

\* the paths, below the root group, of the Entry elements that have the
\* five fields and whose ancestors up to the root group are searchable
\* groups
EntryPaths(group) ==
    { p \in PathsOf(group) :
        /\ p # <<>>
        /\ NodeAt(group, p).name = "Entry"
        /\ \A k \in 1..(Len(p) - 1) : is_group(NodeAt(group, SubSeq(p, 1, k)))
        /\ \E i \in 1..Len(NodeAt(group, p).children) : NodeAt(group, p).children[i].name = "UUID"
        /\ \A key \in {"URL", "Title", "UserName", "Password"} : HasField(NodeAt(group, p), key) }

\* the entries described: those at EntryPaths in document order, none when
\* there is no searchable root group
ExpectedEntries(dbxml) ==
    IF get_root_group(dbxml) = <<>> THEN <<>>
    ELSE LET group == NodeAt(dbxml.xml, get_root_group(dbxml))
             paths == SortPaths(EntryPaths(group))
         IN  [i \in 1..Len(paths) |-> from_xml(NodeAt(group, paths[i]))[1]]

\* C15: get_entries yields the entries of the Entry elements that have the
\* five fields and lie in the root group or in groups reached from it
\* through searchable groups, in document order and once each; nothing when
\* the root group is missing or not searchable
C15_GetEntries ==
    hist.op = "get_entries" => hist.response = ExpectedEntries(xml[1])

\* get_entries on the document with a nested searchable group, a
\* non-searchable group and an Entry without fields
C15_Witness ==
    /\ hist.op = "get_entries"
    /\ [i \in 1..Len(hist.response) |-> hist.response[i].uuid] = <<Str("1"), Str("2"), Str("0")>>
    /\ \E p \in PathsOf(xml[1].xml) :
          NodeAt(xml[1].xml, p).name = "UUID" /\ text_content(NodeAt(xml[1].xml, p)) = Str("3")

\* a tree without the node at a path
RECURSIVE RemoveNode(_, _)
RemoveNode(el, path) ==
    IF Len(path) = 1 THEN [el EXCEPT !.children = RemoveAt(@, path[1])]
    ELSE [el EXCEPT !.children[path[1]] = RemoveNode(@, Tail(path))]

\* the paths of the Entry elements whose UUID is uuid
EntriesOf(xmlroot, uuid) ==
    { p \in PathsOf(xmlroot) :
        /\ p # <<>>
        /\ NodeAt(xmlroot, p).name = "Entry"
        /\ \E i \in 1..Len(NodeAt(xmlroot, p).children) :
              /\ NodeAt(xmlroot, p).children[i].name = "UUID"
              /\ text_content(NodeAt(xmlroot, p).children[i]) = uuid }

\* remove_entry succeeds exactly when get_entry succeeds, and then the tree
\* is the one before without one Entry element of that uuid
RemovedOne ==
    /\ (res = "Ok") <=> (get_entry(hist.before, hist.uuid) # <<>>)
    /\ res = "Ok" =>
          /\ xml[1].inner_header = hist.before.inner_header
          /\ \E p \in EntriesOf(hist.before.xml, hist.uuid) :
                xml[1].xml = RemoveNode(hist.before.xml, p)
    /\ res # "Ok" => xml[1] = hist.before

\* C16 as stated: a call that removes nothing returns NoSuchEntry
C16_AsStated ==
    hist.op = "remove_entry" => (RemovedOne /\ res \in {"Ok", "NoSuchEntry"})

\* C16: remove_entry(uuid) succeeds exactly when get_entry(uuid) succeeds;
\* it then removes one Entry element whose UUID is uuid and changes nothing
\* else; otherwise the tree is unchanged and the error is NoSuchEntry, or
\* MissingRootGroup when the document has no searchable root group
C16_RemoveEntry ==
    hist.op = "remove_entry" =>
        /\ RemovedOne
        /\ res # "Ok" =>
              res = IF get_root_group(hist.before) = <<>> THEN "MissingRootGroup"
                    ELSE "NoSuchEntry"

\* an entry of a nested group has been removed from a document that holds
\* other entries
C16_Witness ==
    /\ hist.op = "remove_entry" /\ res = "Ok" /\ hist.uuid = Str("2")
    /\ Len(get_entries(xml[1])) = 2

\* a tree with the node at a path replaced
RECURSIVE ReplaceNode(_, _, _)
ReplaceNode(el, path, node) ==
    IF path = <<>> THEN node
    ELSE [el EXCEPT !.children[path[1]] = ReplaceNode(@, Tail(path), node)]

\* the paths, in document order, of the Entry elements with a UUID child of
\* that text whose ancestors up to the root group are searchable groups
MatchingEntries(dbxml, uuid) ==
    IF get_root_group(dbxml) = <<>> THEN <<>>
    ELSE SortPaths({ p \in EntriesOf(dbxml.xml, uuid) :
            /\ Len(p) > 2 /\ SubSeq(p, 1, 2) = get_root_group(dbxml)
            /\ \A k \in 2..(Len(p) - 1) : is_group(NodeAt(dbxml.xml, SubSeq(p, 1, k))) })

\* the String children update_entry is to leave in an entry: one for each
\* of the five fields that has a value
NewStrings(entry, protected) ==
    { set_key_value(Element("String", <<>>), Str(field[1]), field[2], field[1] \in protected) :
        field \in { <<"URL", entry.url>>, <<"Title", entry.title>>,
                    <<"UserName", entry.username>>, <<"Password", entry.password>> }
                  \cup { <<"Notes", entry.notes[i]>> : i \in 1..Len(entry.notes) } }

\* the first matching Entry element has the new Strings of the five fields
\* and otherwise the children it had, and nothing else in the tree differs
UpdatedFirst(paths) ==
    LET old == NodeAt(hist.before.xml, paths[1])
        new == NodeAt(xml[1].xml, paths[1])
        known == SelectSeq(new.children, is_known_string)
    IN  /\ xml[1] = [hist.before EXCEPT !.xml = ReplaceNode(@, paths[1], new)]
        /\ SelectSeq(new.children, LAMBDA c : ~is_known_string(c))
             = SelectSeq(old.children, LAMBDA c : ~is_known_string(c))
        /\ [new EXCEPT !.children = <<>>] = [old EXCEPT !.children = <<>>]
        /\ {known[i] : i \in 1..Len(known)} = NewStrings(hist.entry[1], hist.protected)
        /\ Len(known) = Cardinality(NewStrings(hist.entry[1], hist.protected))

\* C17: update_entry changes only the first Entry element whose UUID child
\* equals entry.uuid: its Strings of the five fields are replaced by the new
\* values, protected as asked, and its other children and the rest of the
\* tree stay; without a match it returns NoSuchEntry and changes nothing
C17_UpdateEntry ==
    hist.op = "update_entry" =>
        IF MatchingEntries(hist.before, hist.entry[1].uuid) = <<>>
        THEN res = "NoSuchEntry" /\ xml[1] = hist.before
        ELSE res = "Ok" /\ UpdatedFirst(MatchingEntries(hist.before, hist.entry[1].uuid))

-----------------------------------------------------------------------------
(* database_header.rs: an OuterHeader is written with OuterHeader::serialize, *)
(* read back with OuterHeader::deserialize, and its cipher and IV are      *)
(* handed to BlockCipher::decrypt.                                         *)

\* the custom data of the headers: none, an empty list, a list with a
\* field of each kind, and a list with two fields of one key
CustomDataChoices ==
    { <<>>, << <<>> >>,
      << << [key |-> Bytes(<<107>>), t |-> "Bool", value |-> Bytes(<<1>>)],
            [key |-> Bytes(<<108, 109>>), t |-> "String", value |-> Bytes(<<97, 98>>)],
            [key |-> Bytes(<<>>), t |-> "U32", value |-> Bytes(<<1, 2, 3, 4>>)],
            [key |-> Bytes(<<110>>), t |-> "Bytes", value |-> Bytes(<<>>)],
            [key |-> Bytes(<<111>>), t |-> "I64", value |-> Bytes(<<255, 255, 255, 255, 255, 255, 255, 255>>)] >> >>,
      << << [key |-> Bytes(<<107>>), t |-> "Bool", value |-> Bytes(<<0>>)],
            [key |-> Bytes(<<106>>), t |-> "U64", value |-> Bytes(<<0, 0, 0, 0, 0, 0, 0, 1>>)],
            [key |-> Bytes(<<107>>), t |-> "Bytes", value |-> Bytes(<<0, 12>>)] >> >> }

\* the headers of the model; the IV has the length of one of the ciphers
Headers ==
    { [cipher |-> cipher, compression |-> compression, main_seed |-> Repeat(7, 32),
       iv |-> Repeat(9, ivlen),
       kdf_parameters |-> [algorithm |-> kdf[1], salt |-> Repeat(5, 16), version |-> kdf[2],
                           parallelism |-> to_le_bytes(2, 4), memory |-> kdf[3],
                           iterations |-> to_le_bytes(2, 4)],
       custom_data |-> custom_data] :
        cipher \in {"Aes256", "Twofish", "ChaCha20"}, compression \in {"None", "Gzip"},
        ivlen \in {12, 16},
        kdf \in { <<"ID", "Version13", to_le_bytes(16, 4)>>,
                  <<"D", "Version10", Bytes(<<255, 255, 255, 255>>)>> },
        custom_data \in CustomDataChoices }

NoHeaderCall == [op |-> "none", response |-> <<>>, pos |-> 0]

InitHeader ==
    /\ db \in {<<header>> : header \in Headers}
    /\ pc = "header"
    /\ file = <<>> /\ inpos = 0 /\ keys = <<>> /\ xml = <<>>
    /\ res = "Ok"
    /\ stdin = <<>> /\ stdout = <<>>
    /\ hist = NoHeaderCall

\* OuterHeader::serialize to an empty output
HeaderSerialize ==
    /\ pc = "header"
    /\ file' = OuterHeader_serialize(db[1])
    /\ pc' = "written"
    /\ hist' = [NoHeaderCall EXCEPT !.op = "serialize"]
    /\ UNCHANGED <<inpos, db, keys, xml, res, stdin, stdout>>

\* OuterHeader::deserialize from the start of what has been written
HeaderDeserialize ==
    /\ pc = "written"
    /\ \E r \in {OuterHeader_deserialize(file, 1)} :
          /\ res' = r.err
          /\ inpos' = IF r.err = "Ok" THEN r.pos - 1 ELSE inpos
          /\ pc' = IF r.err = "Ok" THEN "read" ELSE "done"
          /\ hist' = [NoHeaderCall EXCEPT !.op = "deserialize",
                          !.response = IF r.err = "Ok" THEN <<r.val>> ELSE <<>>]
    /\ UNCHANGED <<file, db, keys, xml, stdin, stdout>>

\* the call of BlockCipher::decrypt in Database::decrypt with the cipher
\* and the IV of the header read
HeaderDecrypt ==
    /\ pc = "read"
    /\ \E r \in BlockCipher_decrypt(hist.response[1].cipher, Repeat(0, 16), Repeat(1, 32),
                                    hist.response[1].iv) :
          res' = r.err
    /\ pc' = "done"
    /\ hist' = [hist EXCEPT !.op = "decrypt"]
    /\ UNCHANGED <<file, inpos, db, keys, xml, stdin, stdout>>

NextHeader ==
    \/ HeaderSerialize
    \/ HeaderDeserialize
    \/ HeaderDecrypt

SpecHeader == InitHeader /\ [][NextHeader]_vars

\* C18: OuterHeader::deserialize applied to the bytes OuterHeader::serialize
\* has written for a header whose IV has the length of its cipher returns
\* the same header, custom data with its entries in order included, and
\* consumes exactly the bytes written
C18_RoundTrip ==
    (hist.op = "deserialize" /\ Len(db[1].iv) = iv_size(db[1].cipher)) =>
        /\ res = "Ok"
        /\ hist.response = db
        /\ inpos = Len(file)

\* a header with custom data of several fields has been read back
C18_Witness ==
    /\ hist.op = "deserialize" /\ res = "Ok"
    /\ Len(db[1].iv) = iv_size(db[1].cipher)
    /\ db[1].custom_data # <<>> /\ Len(db[1].custom_data[1]) = 5

\* C19: a header OuterHeader::deserialize accepts has an IV of the length
\* of its cipher, and BlockCipher::decrypt does not panic on it
C19_IvLength ==
    /\ (hist.op = "deserialize" /\ res = "Ok") =>
          Len(hist.response[1].iv) = iv_size(hist.response[1].cipher)
    /\ hist.op = "decrypt" => res # "Panic"

-----------------------------------------------------------------------------
(* hmac_block_stream.rs: a caller that calls read() on an                  *)
(* HmacBlockStreamReader again and again, also after an error.  The reader *)
(* is [index, current, pos, inner]: current is the Option of the block,    *)
(* inner the 1-based position in the input.                                *)

MaxReads == 4       \* read calls on one reader

\* HmacBlockStreamReader::new
HmacBlockStreamReader_new == [index |-> -1, current |-> <<>>, pos |-> 0, inner |-> 1]

\* next_block with the position of the input after the call: behind the
\* record when its HMAC differs, at the end when the input was too short
next_block_at(input, pos, ks, index) ==
    With(next_block(input, pos, ks, index), LAMBDA r :
        IF r.err = "Ok" THEN r
        ELSE IF r.err = "CorruptDatabase"
        THEN [r EXCEPT !.pos = pos + 36 + from_le_bytes(SubSeq(input, pos + 32, pos + 35))]
        ELSE [r EXCEPT !.pos = Len(input) + 1])

\* Read::read for HmacBlockStreamReader with a buffer of n bytes:
\* [err, bytes, reader], bytes being what the call has put into the buffer
HmacBlockStreamReader_read(input, ks, reader, n) ==
    With(IF reader.current # <<>> THEN [err |-> "Ok", reader |-> reader]
         ELSE With(next_block_at(input, reader.inner, ks, reader.index + 1), LAMBDA r :
                  IF r.err # "Ok"
                  THEN [err |-> "Io",
                        reader |-> [reader EXCEPT !.index = @ + 1, !.inner = r.pos]]
                  ELSE IF r.val # <<>>
                  THEN [err |-> "Ok",
                        reader |-> [index |-> reader.index + 1, current |-> <<r.val>>,
                                    pos |-> 0, inner |-> r.pos]]
                  ELSE [err |-> "Ok",
                        reader |-> [reader EXCEPT !.index = @ + 1, !.inner = r.pos]]),
         LAMBDA nb :
        IF nb.err # "Ok" THEN [err |-> nb.err, bytes |-> <<>>, reader |-> nb.reader]
        ELSE IF nb.reader.current = <<>> THEN [err |-> "Ok", bytes |-> <<>>, reader |-> nb.reader]
        ELSE With(Len(nb.reader.current[1]) - nb.reader.pos, LAMBDA remaining :
                 IF n < remaining
                 THEN [err |-> "Ok",
                       bytes |-> SubSeq(nb.reader.current[1], nb.reader.pos + 1, nb.reader.pos + n),
                       reader |-> [nb.reader EXCEPT !.pos = @ + n]]
                 ELSE [err |-> "Ok",
                       bytes |-> SubSeq(nb.reader.current[1], nb.reader.pos + 1,
                                        Len(nb.reader.current[1])),
                       reader |-> [nb.reader EXCEPT !.current = <<>>]]))

\* the keys of the main password
StreamKeys ==
    Keys_derive(MainPassword, InitialDatabase(CHOOSE cfg \in Configs : cfg.cipher = "Aes256").header).val

\* three records and the empty record that ends the stream
GoodStream ==
    write_block(StreamKeys, 0, Bytes(<<1, 2, 3>>)) \o write_block(StreamKeys, 1, Bytes(<<4, 5>>))
      \o write_block(StreamKeys, 2, Bytes(<<6>>)) \o write_block(StreamKeys, 3, <<>>)

\* record k of GoodStream
GoodRecord(k) ==
    CASE k = 0 -> write_block(StreamKeys, 0, Bytes(<<1, 2, 3>>))
      [] k = 1 -> write_block(StreamKeys, 1, Bytes(<<4, 5>>))
      [] k = 2 -> write_block(StreamKeys, 2, Bytes(<<6>>))
      [] k = 3 -> write_block(StreamKeys, 3, <<>>)

\* streams a writer has not produced: a record dropped, duplicated, two
\* records swapped, the end record missing or cut, and no record at all
BrokenStreams ==
    { GoodRecord(0) \o GoodRecord(2) \o GoodRecord(3),
      GoodRecord(0) \o GoodRecord(1) \o GoodRecord(3),
      GoodRecord(1) \o GoodRecord(2) \o GoodRecord(3),
      GoodRecord(0) \o GoodRecord(1) \o GoodRecord(1) \o GoodRecord(2) \o GoodRecord(3),
      GoodRecord(0) \o GoodRecord(2) \o GoodRecord(1) \o GoodRecord(3),
      GoodRecord(3),
      GoodRecord(0) \o GoodRecord(1) \o GoodRecord(2),
      GoodRecord(0) \o GoodRecord(1) \o GoodRecord(2) \o SubSeq(GoodRecord(3), 1, 20),
      GoodRecord(0) \o SubSeq(GoodRecord(1), 1, 37),
      <<>> }

\* the streams of the model: the good one, the good one with one bit
\* flipped in the HMAC or in the data of one record, the stream of an empty
\* payload, and the broken ones
Streams ==
    {GoodStream, write_block(StreamKeys, 0, <<>>)}
      \cup { [GoodStream EXCEPT ![p] = FlipBit(@, 0)] : p \in {1, 37, 40, 76, 77, 78, 115} }
      \cup BrokenStreams

NoRead == [op |-> "none", out |-> <<>>, n |-> 0, calls |-> 0, errors |-> 0, last |-> 0]

InitStream ==
    /\ file \in Streams
    /\ pc = "reading"
    /\ inpos = 0
    /\ db = <<HmacBlockStreamReader_new>> /\ keys = <<StreamKeys>> /\ xml = <<>>
    /\ res = "Ok"
    /\ stdin = <<>> /\ stdout = <<>>
    /\ hist = NoRead

\* one call of read() with a buffer of n bytes; out collects what the
\* calls have returned
StreamRead(n) ==
    /\ hist.calls < MaxReads
    /\ \E r \in {HmacBlockStreamReader_read(file, keys[1], db[1], n)} :
          /\ db' = <<r.reader>>
          /\ res' = r.err
          /\ hist' = [op |-> "read", out |-> hist.out \o r.bytes, n |-> n,
                      calls |-> hist.calls + 1,
                      errors |-> hist.errors + (IF r.err # "Ok" THEN 1 ELSE 0),
                      last |-> Len(r.bytes)]
    /\ UNCHANGED <<file, pc, inpos, keys, xml, stdin, stdout>>

NextStream == \E n \in {1, 4} : StreamRead(n)

SpecStream == InitStream /\ [][NextStream]_vars

\* the data of the records from a position up to the first record whose
\* HMAC differs, up to the empty record or up to the end of the input
RECURSIVE VerifiedData(_, _, _, _)
VerifiedData(input, pos, ks, index) ==
    With(next_block(input, pos, ks, index), LAMBDA r :
        IF r.err # "Ok" \/ r.val = <<>> THEN <<>>
        ELSE r.val \o VerifiedData(input, r.pos, ks, index + 1))

\* C20: what the read calls on an HmacBlockStreamReader have returned is a
\* prefix of the data of the records that precede the first record whose
\* HMAC check fails: no byte of a record that is not verified, and no byte
\* located after a record that failed
C20_VerifiedOnly ==
    /\ Len(hist.out) <= Len(VerifiedData(file, 1, keys[1], 0))
    /\ hist.out = SubSeq(VerifiedData(file, 1, keys[1], 0), 1, Len(hist.out))

\* whether the input from a position holds records as a writer emits them:
\* record after record carries the HMAC of its index, the indices count from
\* the given one, and a record of length zero comes last
RECURSIVE WellFormed(_, _, _, _)
WellFormed(input, pos, ks, index) ==
    /\ pos + 35 <= Len(input)
    /\ AllN(SubSeq(input, pos + 32, pos + 35))
    /\ LET size == from_le_bytes(SubSeq(input, pos + 32, pos + 35))
       IN  /\ pos + 35 + size <= Len(input)
           /\ SubSeq(input, pos, pos + 35 + size)
                = write_block(ks, index, SubSeq(input, pos + 36, pos + 35 + size))
           /\ IF size = 0 THEN TRUE ELSE WellFormed(input, pos + 36 + size, ks, index + 1)

\* a read call has reported the end of the stream and no call has failed
ReadToEnd == hist.op = "read" /\ res = "Ok" /\ hist.last = 0 /\ hist.errors = 0

\* C21: when read() reports the end of the stream, the record read last is
\* a record of length zero with the HMAC of the reader's index, and if no
\* call has failed every record before it carried the HMAC of its index,
\* counted from 0: a stream with a record dropped, duplicated, swapped or
\* without its end record is not read to the end without an error
C21_EndOfStream ==
    /\ (hist.op = "read" /\ res = "Ok" /\ hist.last = 0) =>
          /\ db[1].inner > 36
          /\ SubSeq(file, db[1].inner - 36, db[1].inner - 1)
               = write_block(keys[1], db[1].index, <<>>)
    /\ ReadToEnd =>
          /\ WellFormed(file, 1, keys[1], 0)
          /\ hist.out = VerifiedData(file, 1, keys[1], 0)
          /\ file \notin BrokenStreams

\* the good stream has been read to its end: three records and the end
\* record
C21_Witness ==
    ReadToEnd /\ file = GoodStream /\ Len(hist.out) = 6 /\ db[1].index = 3

-----------------------------------------------------------------------------
(* hmac_block_stream.rs: a caller that calls write() and flush() on an     *)
(* HmacBlockStreamWriter, then finish(), and reads the output back.  The    *)
(* writer is [index, current, inner], inner being the bytes written to the *)
(* output.  The block size is a parameter: the code compares lengths with  *)
(* BLOCK_SIZE and does nothing else with it, and the model runs the writer *)
(* with a block of ModelBlockSize bytes.                                   *)

ModelBlockSize == 4     \* the block size the writer of the model runs with
MaxWrites == 3          \* write and flush calls on one writer

\* HmacBlockStreamWriter::new
HmacBlockStreamWriter_new == [index |-> 0, current |-> <<>>, inner |-> <<>>]

\* HmacBlockStreamWriter::write_block on the writer
HmacBlockStreamWriter_write_block(writer, ks) ==
    [index |-> writer.index + 1, current |-> <<>>,
     inner |-> writer.inner \o write_block(ks, writer.index, writer.current)]

\* a finish that writes the buffer and the end record whatever the buffer
\* holds
HmacBlockStreamWriter_finish_always(writer, ks) ==
    HmacBlockStreamWriter_write_block(HmacBlockStreamWriter_write_block(writer, ks), ks)

\* HmacBlockStreamWriter::finish
HmacBlockStreamWriter_finish(writer, ks) ==
    HmacBlockStreamWriter_write_block(
        IF writer.current # <<>> THEN HmacBlockStreamWriter_write_block(writer, ks) ELSE writer,
        ks)

\* Write::write for HmacBlockStreamWriter: [n, writer], n being the number
\* of bytes of buf the call has taken
HmacBlockStreamWriter_write(writer, ks, buf, block_size) ==
    With(block_size - Len(writer.current), LAMBDA remaining :
        IF Len(buf) < remaining
        THEN [n |-> Len(buf), writer |-> [writer EXCEPT !.current = @ \o buf]]
        ELSE [n |-> remaining,
              writer |-> HmacBlockStreamWriter_write_block(
                             [writer EXCEPT !.current = @ \o SubSeq(buf, 1, remaining)], ks)])

\* Write::flush for HmacBlockStreamWriter
HmacBlockStreamWriter_flush(writer, ks) == HmacBlockStreamWriter_write_block(writer, ks)

NoWrite ==
    [op |-> "none", written |-> <<>>, calls |-> 0, flushes |-> 0, response |-> <<>>]

InitWriter ==
    /\ db = <<HmacBlockStreamWriter_new>>
    /\ keys = <<StreamKeys>>
    /\ pc = "writing"
    /\ file = <<>> /\ inpos = 0 /\ xml = <<>>
    /\ res = "Ok"
    /\ stdin = <<>> /\ stdout = <<>>
    /\ hist = NoWrite

\* one call of write() with a buffer of len bytes, all different from the
\* bytes of the other calls; written collects the bytes the calls have taken
WriterWrite(len) ==
    /\ pc = "writing" /\ hist.calls < MaxWrites
    /\ \E w \in {HmacBlockStreamWriter_write(db[1], keys[1],
                     [i \in 1..len |-> N(10 * (hist.calls + 1) + i)], ModelBlockSize)} :
          /\ db' = <<w.writer>>
          /\ hist' = [hist EXCEPT !.op = "write", !.calls = @ + 1,
                          !.written = @ \o [i \in 1..w.n |-> N(10 * (hist.calls + 1) + i)]]
    /\ UNCHANGED <<file, pc, inpos, keys, xml, res, stdin, stdout>>

\* one call of flush()
WriterFlush ==
    /\ pc = "writing" /\ hist.calls < MaxWrites
    /\ db' = <<HmacBlockStreamWriter_flush(db[1], keys[1])>>
    /\ hist' = [hist EXCEPT !.op = "flush", !.calls = @ + 1, !.flushes = @ + 1]
    /\ UNCHANGED <<file, pc, inpos, keys, xml, res, stdin, stdout>>

\* the call of finish(); the output becomes the file
WriterFinish ==
    /\ pc = "writing"
    /\ \E w \in {HmacBlockStreamWriter_finish(db[1], keys[1])} :
          /\ db' = <<w>>
          /\ file' = w.inner
    /\ pc' = "finished"
    /\ hist' = [hist EXCEPT !.op = "finish"]
    /\ UNCHANGED <<inpos, keys, xml, res, stdin, stdout>>

\* read_to_end on an HmacBlockStreamReader for the output
WriterReadBack ==
    /\ pc = "finished"
    /\ \E r \in {HmacBlockStreamReader(file, 1, keys[1], 0, <<>>)} :
          /\ res' = r.err
          /\ hist' = [hist EXCEPT !.op = "read_to_end",
                          !.response = IF r.err = "Ok" THEN <<r.val>> ELSE <<>>]
    /\ pc' = "read"
    /\ UNCHANGED <<file, inpos, db, keys, xml, stdin, stdout>>

NextWriter ==
    \/ \E len \in {0, 1, 3, 4, 6} : WriterWrite(len)
    \/ WriterFlush
    \/ WriterFinish
    \/ WriterReadBack

SpecWriter == InitWriter /\ [][NextWriter]_vars

\* the data of the records of an input, record after record to its end
RECURSIVE RecordsOf(_, _)
RecordsOf(input, pos) ==
    IF pos + 35 > Len(input) THEN <<>>
    ELSE <<SubSeq(input, pos + 36, pos + 35 + from_le_bytes(SubSeq(input, pos + 32, pos + 35)))>>
           \o RecordsOf(input, pos + 36 + from_le_bytes(SubSeq(input, pos + 32, pos + 35)))

\* the input is the records of these data with the HMACs of the indices
\* 0, 1, 2, ...
RECURSIVE EmitsRecords(_, _, _, _)
EmitsRecords(input, ks, index, records) ==
    IF records = <<>> THEN input = <<>>
    ELSE /\ Len(input) >= 36 + Len(records[1])
         /\ SubSeq(input, 1, 36 + Len(records[1])) = write_block(ks, index, records[1])
         /\ EmitsRecords(SubSeq(input, 37 + Len(records[1]), Len(input)), ks, index + 1,
                         Tail(records))

\* C22: after write calls and one finish, without flush, the output is
\* records with the indices 0, 1, 2, ... that hold the bytes written in
\* order; every data record holds a full block except possibly the last one,
\* which holds at least one byte, and the record of length zero comes last
\* and only there
C22_Records ==
    (pc = "finished" /\ hist.flushes = 0) =>
        LET records == RecordsOf(file, 1)
            count == Len(records)
        IN  /\ count >= 1
            /\ EmitsRecords(file, keys[1], 0, records)
            /\ Flat(records) = hist.written
            /\ records[count] = <<>>
            /\ \A i \in 1..(count - 1) : Len(records[i]) >= 1 /\ Len(records[i]) <= ModelBlockSize
            /\ \A i \in 1..(count - 2) : Len(records[i]) = ModelBlockSize

\* a full record, a shorter record and the end record have been written
C22_Witness ==
    /\ pc = "finished" /\ hist.flushes = 0
    /\ Len(RecordsOf(file, 1)) = 3
    /\ Len(RecordsOf(file, 1)[1]) = ModelBlockSize /\ Len(RecordsOf(file, 1)[2]) = 3

\* C23: after write and flush calls in any order and one finish, reading
\* the output with the same keys gives the bytes written, all of them
C23_FlushKeepsData ==
    hist.op = "read_to_end" => (res = "Ok" /\ hist.response = <<hist.written>>)

-----------------------------------------------------------------------------
(* database.rs: a caller that deserializes a Database and calls unlock on  *)
(* it several times.                                                       *)

MaxUnlocks == 5     \* unlock calls on one Database

\* one more call of unlock on the same Database; hist.password collects the
\* passwords of the calls
UnlockAgain(password) ==
    /\ pc = "unlock" /\ Len(hist.password) < MaxUnlocks
    /\ \E r \in {Database_unlock(db[1], password)} :
          /\ res' = r.err
          /\ keys' = r.keys
          /\ db' = <<r.db>>
    /\ hist' = [hist EXCEPT !.op = "unlock", !.password = @ \o <<password>>, !.before = db]
    /\ UNCHANGED <<file, pc, inpos, xml, stdin, stdout>>

NextUnlock ==
    \/ Deserialize
    \/ \E password \in Passwords : UnlockAgain(password)

SpecUnlock == InitFile /\ [][NextUnlock]_vars

\* C24: every unlock call with the correct password on a Database whose
\* keys can be derived succeeds, whatever calls came before it
C24_UnlockAgain ==
    (hist.op = "unlock" /\ hist.valid /\ hist.password[Len(hist.password)] = MainPassword) =>
        (res = "Ok" /\ keys # <<>>)

-----------------------------------------------------------------------------
(* database.rs: a caller that holds a loaded Database, its keys and its    *)
(* view and calls save several times.                                      *)

MaxSaveCalls == 2     \* save calls on one Database

\* the files the caller has loaded: outer cipher, compression, and the
\* stream cipher of the inner header
SaveConfigs ==
    [cipher : {"ChaCha20", "Aes256"}, compression : {"Gzip", "None"},
     inner : {"ChaCha20", "Salsa20"}, entries : {0, 1}]

NoSaveCall ==
    [op |-> "none", saves |-> 0, before_db |-> <<>>, before_xml |-> <<>>,
     iv |-> <<>>, key |-> <<>>]

InitSave ==
    \E cfg \in SaveConfigs :
    \E entries \in {[i \in 1..cfg.entries |->
                        Entry_new(Str("0"), Str("c"), Str("T"), Str("u"), Str("p"))]} :
    \E loaded \in {[cipher |-> cfg.cipher, compression |-> cfg.compression, iterations |-> 2]} :
        /\ file = InitialFile(loaded, entries)
        /\ db = <<Database_deserialize(file).val>>
        /\ keys = <<Keys_derive(MainPassword, db[1].header).val>>
        /\ xml = <<[InitialXML(entries) EXCEPT !.inner_header =
                       [cipher |-> cfg.inner, key |-> Repeat(3, key_size(cfg.inner)),
                        binaries |-> <<>>]]>>
        /\ pc = "loaded"
        /\ inpos = 0
        /\ res = "Ok"
        /\ stdin = <<>> /\ stdout = <<>>
        /\ hist = NoSaveCall

\* one call of Database::save; random_vec fails or returns bytes that
\* differ from call to call
SaveAgain ==
    /\ pc = "loaded" /\ hist.saves < MaxSaveCalls
    /\ \E random_iv \in {<<>>, <<Repeat(20 + hist.saves, iv_size(db[1].header.cipher))>>},
          random_key \in {<<>>, <<Repeat(30 + hist.saves, key_size("ChaCha20"))>>} :
       \E r \in {Database_save(db[1], keys[1], xml[1], random_iv, random_key)} :
          /\ file' = r.out
          /\ db' = <<r.db>>
          /\ xml' = <<r.dbxml>>
          /\ res' = r.err
          /\ hist' = [op |-> "save", saves |-> hist.saves + 1, before_db |-> db,
                      before_xml |-> xml, iv |-> random_iv, key |-> random_key]
    /\ UNCHANGED <<pc, inpos, keys, stdin, stdout>>

NextSave == SaveAgain

SpecSave == InitSave /\ [][NextSave]_vars

\* C25: after a save that succeeded, the outer header in the file carries
\* the IV drawn in this save, the payload decrypts under it, the inner
\* header in the payload is ChaCha20 with the 64-byte key drawn in this
\* save, whatever the cipher was before, and the protected texts of the
\* payload decode under that key to the texts of the view
C25_SaveHeaders ==
    (hist.op = "save" /\ res = "Ok") =>
        /\ hist.iv # <<>> /\ hist.key # <<>>
        /\ Len(hist.key[1]) = 64
        /\ Database_deserialize(file).err = "Ok"
        /\ Database_deserialize(file).val.header.iv = hist.iv[1]
        /\ db[1].header.iv = hist.iv[1]
        /\ xml[1].inner_header.cipher = "ChaCha20" /\ xml[1].inner_header.key = hist.key[1]
        /\ \A x \in Database_decrypt(Database_deserialize(file).val, file,
                                     Database_deserialize(file).pos, keys[1]) :
              /\ x.err = "Ok"
              /\ x.val.inner_header.cipher = "ChaCha20"
              /\ x.val.inner_header.key = hist.key[1]
              /\ x.val.xml = hist.before_xml[1].xml

\* a second save has succeeded on a file that came with Salsa20 and AES-256
C25_Witness ==
    /\ hist.op = "save" /\ res = "Ok" /\ hist.saves = 2
    /\ hist.before_db[1].header.cipher = "Aes256"
    /\ hist.before_db[1].header.iv # hist.iv[1]
    /\ hist.before_xml[1].inner_header.key # hist.key[1]
    /\ get_entries(hist.before_xml[1]) # <<>>

-----------------------------------------------------------------------------
(* action_handler.rs: add-entry, update-entry and duplicate-entry requests *)
(* on one database file.                                                   *)

MaxRequests == 2     \* requests on one file

\* the databases the requests start from, as lists of <<uuid, hostname,
\* title>>; no two entries of one agree in hostname and title
EntryDatabases ==
    { << <<"0", "c", Str("T")>> >>,
      << <<"0", "c", Str("T")>>, <<"9", "c", Numbered("t", <<"2">>)>> >>,
      << <<"0", "c", Str("T")>>, <<"9", "d", Str("T")>> >> }

NoEntryRequest ==
    [op |-> "none", calls |-> 0, before |-> <<>>, uuid |-> <<>>, hostname |-> <<>>,
     title |-> <<>>, response |-> <<>>]

InitEntries ==
    \E entries \in EntryDatabases :
        /\ file = InitialFile(CHOOSE cfg \in Configs : cfg.cipher = "Aes256",
                      [i \in 1..Len(entries) |->
                          Entry_new(Str(entries[i][1]), Str(entries[i][2]), entries[i][3],
                                    Str("u"), Str("p"))])
        /\ pc = "serving"
        /\ inpos = 0
        /\ db = <<>> /\ keys = <<>> /\ xml = <<>>
        /\ res = "Ok"
        /\ stdin = <<>> /\ stdout = <<>>
        /\ hist = NoEntryRequest

\* some entry other than uuid has this hostname and this title, cases ignored
entry_exists(dbxml, hostname, title, uuid) ==
    \E i \in 1..Len(get_entries(dbxml)) :
        /\ eq_ignore_ascii_case(Entry_hostname(get_entries(dbxml)[i]), hostname)
        /\ eq_ignore_ascii_case(get_entries(dbxml)[i].title, title)
        /\ uuid = <<>> \/ get_entries(dbxml)[i].uuid # uuid[1]

\* Entry::set_hostname
set_hostname(entry, hostname) ==
    [entry EXCEPT !.url = IF hostname = <<>> THEN <<>> ELSE Str("https://") \o hostname]

\* the values generate_uuid can give for this view
FreshUuids(dbxml) ==
    {<<>>} \cup {<<u>> : u \in UuidPool \ {get_entries(dbxml)[i].uuid :
                                               i \in 1..Len(get_entries(dbxml))}}

\* the end of a request that changes the view: save_database when the change
\* has succeeded
EntriesDone(r, changed) ==
    IF changed.err # "Ok" THEN [err |-> changed.err, file |-> file]
    ELSE save_database(file, r.val.database, changed.val, r.val.keys, "none")

\* handle, Request::AddEntry
EntriesAdd(array, hostname, title) ==
    /\ pc = "serving" /\ hist.calls < MaxRequests
    /\ \E r \in get_database_xml(file, array) :
          IF r.err # "Ok"
          THEN /\ res' = r.err /\ file' = file
               /\ hist' = [NoEntryRequest EXCEPT !.op = "add-entry", !.calls = hist.calls + 1,
                              !.before = file]
          ELSE /\ Len(get_entries(r.val.database_xml)) < MaxEntries
               /\ \E new_uuid \in FreshUuids(r.val.database_xml) :
                  \E done \in {EntriesDone(r,
                      IF entry_exists(r.val.database_xml, hostname, title, <<>>)
                      THEN Err("EntryExists")
                      ELSE IF new_uuid = <<>> THEN Err("RandomNumberGeneratorFailed")
                      ELSE add_entry(r.val.database_xml,
                               set_hostname(Entry_new(new_uuid[1], <<>>, title, Str("u"), Str("p")),
                                            hostname),
                               get_protected_fields(r.val.database_xml)))} :
                     /\ res' = done.err /\ file' = done.file
                     /\ hist' = [NoEntryRequest EXCEPT !.op = "add-entry",
                                    !.calls = hist.calls + 1, !.before = file,
                                    !.hostname = <<hostname>>, !.title = <<title>>,
                                    !.response = IF done.err = "Ok" THEN new_uuid ELSE <<>>]
    /\ UNCHANGED <<pc, inpos, db, keys, xml, stdin, stdout>>

\* the entry of an update-entry request: the stored one with the fields the
\* request gives
updated_entry(entry, hostname, title) ==
    With(IF hostname = <<>> THEN entry ELSE set_hostname(entry, hostname[1]), LAMBDA e :
        IF title = <<>> THEN e ELSE [e EXCEPT !.title = title[1]])

\* handle, Request::UpdateEntry
EntriesUpdate(array, uuid, hostname, title) ==
    /\ pc = "serving" /\ hist.calls < MaxRequests
    /\ \E r \in get_database_xml(file, array) :
          IF r.err # "Ok"
          THEN /\ res' = r.err /\ file' = file
               /\ hist' = [NoEntryRequest EXCEPT !.op = "update-entry", !.calls = hist.calls + 1,
                              !.before = file]
          ELSE \E found \in {get_entry(r.val.database_xml, uuid)} :
               \E done \in {EntriesDone(r,
                   IF found = <<>> THEN Err("NoSuchEntry")
                   ELSE With(updated_entry(found[1], hostname, title), LAMBDA entry :
                       IF entry_exists(r.val.database_xml, Entry_hostname(entry), entry.title,
                                       <<entry.uuid>>)
                       THEN Err("EntryExists")
                       ELSE With(update_entry(r.val.database_xml, entry,
                                     get_protected_fields(r.val.database_xml)), LAMBDA u :
                                IF u.err # "Ok" THEN Err(u.err) ELSE Ok(u.dbxml, 0))))} :
                  /\ res' = done.err /\ file' = done.file
                  /\ hist' = [NoEntryRequest EXCEPT !.op = "update-entry",
                                 !.calls = hist.calls + 1, !.before = file, !.uuid = <<uuid>>,
                                 !.hostname = hostname, !.title = title]
    /\ UNCHANGED <<pc, inpos, db, keys, xml, stdin, stdout>>

\* handle, Request::DuplicateEntry
EntriesDuplicate(array, uuid) ==
    /\ pc = "serving" /\ hist.calls < MaxRequests
    /\ \E r \in get_database_xml(file, array) :
          IF r.err # "Ok"
          THEN /\ res' = r.err /\ file' = file
               /\ hist' = [NoEntryRequest EXCEPT !.op = "duplicate-entry",
                              !.calls = hist.calls + 1, !.before = file]
          ELSE /\ Len(get_entries(r.val.database_xml)) < MaxEntries
               /\ \E new_uuid \in FreshUuids(r.val.database_xml), wraps \in BOOLEAN :
                  \E done \in {EntriesDone(r,
                                   duplicate_entry(r.val.database_xml, uuid, new_uuid, wraps))} :
                     /\ res' = done.err /\ file' = done.file
                     /\ hist' = [NoEntryRequest EXCEPT !.op = "duplicate-entry",
                                    !.calls = hist.calls + 1, !.before = file, !.uuid = <<uuid>>,
                                    !.response = IF done.err = "Ok" THEN new_uuid ELSE <<>>]
    /\ UNCHANGED <<pc, inpos, db, keys, xml, stdin, stdout>>

NextEntries ==
    \E array \in ClientKeys :
        \/ \E hostname \in {Str("c"), Str("www.") \o Str("c")}, title \in {Str("t"), Numbered("T", <<"2">>)} :
              EntriesAdd(array, hostname, title)
        \/ \E uuid \in {Str("0"), Str("9"), Str("7")},
              hostname \in {<<>>, <<Str("D")>>},
              title \in {<<>>, <<Numbered("T", <<"2">>)>>} :
              EntriesUpdate(array, uuid, hostname, title)
        \/ \E uuid \in {Str("0"), Str("9"), Str("7")} : EntriesDuplicate(array, uuid)

SpecEntries == InitEntries /\ [][NextEntries]_vars

\* the entries of the file, read with the keys of the main password
FileEntries(content) ==
    {get_entries(r.val.database_xml) :
        r \in {x \in get_database_xml(content,
                   Keys_to_string(Keys_derive(MainPassword,
                       InitialDatabase(CHOOSE cfg \in Configs : cfg.cipher = "Aes256").header).val)) :
               x.err = "Ok"}}

Collide(a, b) ==
    /\ eq_ignore_ascii_case(Entry_hostname(a), Entry_hostname(b))
    /\ eq_ignore_ascii_case(a.title, b.title)

\* C26: whatever add-entry, update-entry and duplicate-entry requests have
\* been handled, no two entries of the file have the same hostname and the
\* same title, ASCII cases ignored
C26_NoCollision ==
    \A entries \in FileEntries(file) :
        \A i, j \in 1..Len(entries) : i < j => ~Collide(entries[i], entries[j])


-----------------------------------------------------------------------------
\* C27: after update_entry(entry, protected) has succeeded, get_entry with
\* the uuid of entry returns an entry with the url, title, username,
\* password, notes and tags of entry
C27_UpdateThenGet ==
    (hist.op = "update_entry" /\ res = "Ok") =>
        /\ get_entry(xml[1], hist.entry[1].uuid) # <<>>
        /\ \A field \in {"url", "title", "username", "password", "notes", "tags"} :
              get_entry(xml[1], hist.entry[1].uuid)[1][field] = hist.entry[1][field]

-----------------------------------------------------------------------------
(* database_xml.rs: add_alias on views whose alias maps hold long chains   *)

MaxAliasCalls == 2      \* add_alias calls on one view
MaxChain == 12          \* mappings of the longest chain of a view

AliasHosts == <<"a", "b", "c", "d", "e", "f", "g", "h", "i", "j", "k", "l", "m", "z">>
host(i) == Str(AliasHosts[i])

\* the alias map host(1) -> host(2) -> ... -> host(len + 1)
ChainMap(len) == [h \in {host(i) : i \in 1..len} |->
                     host(1 + CHOOSE i \in 1..len : host(i) = h)]

\* the keys of a map in the order of AliasHosts, and in the reverse order
KeyOrders(S) ==
    With(SelectSeq([i \in 1..Len(AliasHosts) |-> host(i)], LAMBDA h : h \in S), LAMBDA order :
        {order, [i \in 1..Len(order) |-> order[Len(order) + 1 - i]]})

\* the views: chains of 1, 9, 10, 11 and MaxChain mappings, the empty map,
\* and a map with a cycle
AliasViews ==
    {InitialXML(<<>>)}
      \cup {set_aliases(InitialXML(<<>>), ChainMap(len),
                        CHOOSE order \in KeyOrders(DOMAIN ChainMap(len)) : order[1] = host(1)) :
              len \in {1, 9, 10, 11, MaxChain}}
      \cup {set_aliases(InitialXML(<<>>), (host(1) :> host(2)) @@ (host(2) :> host(1)),
                        <<host(1), host(2)>>)}

NoAliasCall == [op |-> "none", alias |-> <<>>, hostname |-> <<>>, before |-> <<>>, calls |-> 0]

InitAlias ==
    /\ xml \in {<<view>> : view \in AliasViews}
    /\ pc = "memory"
    /\ file = <<>> /\ inpos = 0 /\ db = <<>> /\ keys = <<>>
    /\ res = "Ok"
    /\ stdin = <<>> /\ stdout = <<>>
    /\ hist = NoAliasCall

\* one call of add_alias
AliasAdd(alias, hostname) ==
    /\ hist.calls < MaxAliasCalls
    /\ \E order \in KeyOrders(DOMAIN get_aliases(xml[1]) \cup {alias}) :
          xml' = <<add_alias(xml[1], alias, hostname, order)>>
    /\ res' = "Ok"
    /\ hist' = [op |-> "add_alias", alias |-> alias, hostname |-> hostname, before |-> xml[1],
                calls |-> hist.calls + 1]
    /\ UNCHANGED <<file, pc, inpos, db, keys, stdin, stdout>>

NextAlias ==
    \E alias \in {host(1), host(2), host(5), host(14)}, hostname \in {host(1), host(2), host(3)} :
        AliasAdd(alias, hostname)

SpecAlias == InitAlias /\ [][NextAlias]_vars

\* the hostnames of the chain from a hostname, the first hops mappings of it
RECURSIVE ChainFrom(_, _, _)
ChainFrom(aliases, hostname, hops) ==
    IF hops = 0 \/ hostname \notin DOMAIN aliases THEN <<hostname>>
    ELSE <<hostname>> \o ChainFrom(aliases, aliases[hostname], hops - 1)

\* the chain from the hostname ends within 10 hops
EndsWithin10(aliases, hostname) ==
    ChainFrom(aliases, hostname, 10)[Len(ChainFrom(aliases, hostname, 10))] \notin DOMAIN aliases

FinalHostname(aliases, hostname) ==
    ChainFrom(aliases, hostname, 10)[Len(ChainFrom(aliases, hostname, 10))]

\* the chain from the hostname comes to alias within its first 10 hops
ReachesAlias(aliases, hostname, alias) ==
    \E i \in 2..Len(ChainFrom(aliases, hostname, 10)) : ChainFrom(aliases, hostname, 10)[i] = alias

AliasMapped(aliases, alias, hostname) ==
    /\ get_aliases(xml[1]) = (alias :> FinalHostname(aliases, hostname)) @@ aliases
    /\ res = "Ok"

\* C28 as stated: when the chain from hostname ends within 10 hops, alias is
\* mapped to its final hostname; when it is longer, nothing changes
C28_AsStated ==
    hist.op = "add_alias" =>
        IF EndsWithin10(get_aliases(hist.before), hist.hostname)
        THEN AliasMapped(get_aliases(hist.before), hist.alias, hist.hostname)
        ELSE xml[1] = hist.before /\ res = "Ok"

\* C28: when the chain from hostname ends within 10 hops and does not come
\* to alias, alias is mapped to the final hostname of the chain; when the
\* chain is longer than 10 hops or comes to alias, the call changes nothing;
\* no error is reported
C28_AddAlias ==
    hist.op = "add_alias" =>
        IF /\ EndsWithin10(get_aliases(hist.before), hist.hostname)
           /\ ~ReachesAlias(get_aliases(hist.before), hist.hostname, hist.alias)
        THEN AliasMapped(get_aliases(hist.before), hist.alias, hist.hostname)
        ELSE xml[1] = hist.before /\ res = "Ok"

\* alias has been mapped along a chain of exactly 10 hops
C28_Witness ==
    /\ hist.op = "add_alias"
    /\ Len(ChainFrom(get_aliases(hist.before), hist.hostname, 10)) = 11
    /\ EndsWithin10(get_aliases(hist.before), hist.hostname)
    /\ hist.alias \in DOMAIN get_aliases(xml[1])
    /\ hist.alias \notin DOMAIN get_aliases(hist.before)

-----------------------------------------------------------------------------
(* kdf_parameters.rs: the bit-packed Serialize and Deserialize of           *)
(* KdfParameters.  A u32 is its four bytes, lowest first, as in the other   *)
(* sections; the bit writer and reader work on its 32 bits, highest first.  *)

SALT_SIZE == 16

\* the n bits of v, highest first, for v < 2^n and n <= 8
BitsOf(v, n) == [i \in 1..n |-> (v \div (2 ^ (n - i))) % 2]

\* the value of up to 8 bits
RECURSIVE BitValue(_)
BitValue(bits) ==
    IF bits = <<>> THEN 0
    ELSE 2 * BitValue(SubSeq(bits, 1, Len(bits) - 1)) + bits[Len(bits)]

Zeros(n) == [i \in 1..n |-> 0]

\* the 32 bits of a u32 given as four bytes, and of a small number
U32Bits(u) == BitsOf(u[4][2], 8) \o BitsOf(u[3][2], 8) \o BitsOf(u[2][2], 8) \o BitsOf(u[1][2], 8)
SmallBits(v) == Zeros(24) \o BitsOf(v, 8)

\* the four bytes of the u32 with these 32 bits
U32Bytes(bits) ==
    <<N(BitValue(SubSeq(bits, 25, 32))), N(BitValue(SubSeq(bits, 17, 24))),
      N(BitValue(SubSeq(bits, 9, 16))), N(BitValue(SubSeq(bits, 1, 8)))>>

\* u32::leading_zeros
leading_zeros(bits) ==
    IF \A i \in 1..32 : bits[i] = 0 THEN 32
    ELSE (CHOOSE i \in 1..32 : bits[i] = 1 /\ \A j \in 1..(i - 1) : bits[j] = 0) - 1

\* BitWrite::write of bitstream_io on a writer [err, bits]: a value that
\* does not fit into n bits is an error
BitWrite(w, n, value) ==
    IF w.err # "Ok" THEN w
    ELSE IF n < 32 /\ \E i \in 1..(32 - n) : value[i] = 1 THEN [w EXCEPT !.err = "Io"]
    ELSE [w EXCEPT !.bits = @ \o SubSeq(value, 33 - n, 32)]

\* the two writes of a value: its bit count in 5 bits, then its bits
write_counted(w, value) ==
    BitWrite(BitWrite(w, 5, SmallBits(32 - leading_zeros(value))),
             (32 - leading_zeros(value)) % 32, value)

\* a return with an error from serialize
return_if(w, cond, err) == IF w.err = "Ok" /\ cond THEN [w EXCEPT !.err = err] ELSE w

\* the bytes the BitWriter has written: the full bytes, and after
\* byte_align the last one filled with zeros
written_bytes(bits, aligned) ==
    [k \in 1..((Len(bits) + (IF aligned THEN 7 ELSE 0)) \div 8) |->
        N(BitValue([i \in 1..8 |-> IF 8 * (k - 1) + i <= Len(bits)
                                   THEN bits[8 * (k - 1) + i] ELSE 0]))]

\* Serialize for KdfParameters: [err, out]
KdfParameters_serialize(this) ==
    With(BitWrite(BitWrite([err |-> "Ok", bits |-> <<>>], 2,
                      SmallBits(CASE this.algorithm = "D" -> 0 [] this.algorithm = "I" -> 1
                                  [] this.algorithm = "ID" -> 2)),
                  1, SmallBits(IF this.version = "Version10" THEN 0 ELSE 1)), LAMBDA w1 :
    With(write_counted(w1, U32Bits(this.parallelism)), LAMBDA w2 :
    With(return_if(w2, \E i \in 23..32 : U32Bits(this.memory)[i] = 1,
                   "KDFParameterExceedsRange"), LAMBDA w3 :
    With(write_counted(w3, Zeros(10) \o SubSeq(U32Bits(this.memory), 1, 22)), LAMBDA w4 :
    With(write_counted(w4, U32Bits(this.iterations)), LAMBDA w5 :
    With(return_if(w5, Len(this.salt) # SALT_SIZE, "KDFParameterExceedsRange"), LAMBDA w6 :
        [err |-> w6.err,
         out |-> written_bytes(w6.bits, w6.err = "Ok")
                   \o (IF w6.err = "Ok" THEN this.salt ELSE <<>>)]))))))

\* BitRead::read of bitstream_io: n bits from the bit at bitpos of the
\* input, as a u32; pos is the position of the bit after them
BitRead(input, bitpos, n) ==
    IF n > 0 /\ (bitpos + n - 2) \div 8 + 1 > Len(input) THEN Err("Io")
    ELSE Ok(Zeros(32 - n) \o [i \in 1..n |->
                BitsOf(input[(bitpos + i - 2) \div 8 + 1][2], 8)[((bitpos + i - 2) % 8) + 1]],
            bitpos + n)

\* the read of a bit count in 5 bits and of that many bits
read_counted(input, bitpos) ==
    Try(BitRead(input, bitpos, 5), LAMBDA bit_count :
        BitRead(input, bit_count.pos, BitValue(SubSeq(bit_count.val, 25, 32))))

\* Deserialize for KdfParameters, from the byte at pos
KdfParameters_deserialize(input, pos) ==
    Try(BitRead(input, 8 * (pos - 1) + 1, 2), LAMBDA algorithm :
        IF BitValue(SubSeq(algorithm.val, 25, 32)) = 3 THEN Err("UnsupportedKDF")
        ELSE
    Try(BitRead(input, algorithm.pos, 1), LAMBDA version :
    Try(read_counted(input, version.pos), LAMBDA parallelism :
    Try(read_counted(input, parallelism.pos), LAMBDA memory :
    Try(read_counted(input, memory.pos), LAMBDA iterations :
    Try(deserialize_vec(input, (iterations.pos + 6) \div 8 + 1, SALT_SIZE), LAMBDA salt :
        Ok([algorithm |-> CASE BitValue(SubSeq(algorithm.val, 25, 32)) = 0 -> "D"
                            [] BitValue(SubSeq(algorithm.val, 25, 32)) = 1 -> "I"
                            [] BitValue(SubSeq(algorithm.val, 25, 32)) = 2 -> "ID",
            salt |-> salt.val,
            version |-> IF version.val[32] = 0 THEN "Version10" ELSE "Version13",
            parallelism |-> U32Bytes(parallelism.val),
            memory |-> U32Bytes(SubSeq(memory.val, 11, 32) \o Zeros(10)),
            iterations |-> U32Bytes(iterations.val)], salt.pos)))))))

\* the u32 values of the parameters: 0, 1, 2, 1000, 2^31 - 1, 2^31, 2^32 - 1
U32Samples ==
    {to_le_bytes(0, 4), to_le_bytes(1, 4), to_le_bytes(2, 4), to_le_bytes(1000, 4),
     <<N(255), N(255), N(255), N(127)>>, <<N(0), N(0), N(0), N(128)>>,
     <<N(255), N(255), N(255), N(255)>>}

\* the memory values: 0, 1024, 65536, 2^32 - 1024, and 16, 1025
MemorySamples ==
    {to_le_bytes(0, 4), to_le_bytes(1024, 4), to_le_bytes(65536, 4),
     <<N(0), N(252), N(255), N(255)>>, to_le_bytes(16, 4), to_le_bytes(1025, 4)}

KdfSamples ==
    [algorithm : {"D", "I", "ID"}, version : {"Version10", "Version13"},
     salt : {Repeat(5, SALT_SIZE), Repeat(5, SALT_SIZE - 1)},
     parallelism : U32Samples, memory : MemorySamples, iterations : U32Samples]

\* the bytes that follow the parameters in the input of deserialize
Trailing == Repeat(255, 2)

NoKdfCall == [op |-> "none", written |-> <<>>, response |-> <<>>]

InitKdf ==
    /\ db \in {<<parameters>> : parameters \in KdfSamples}
    /\ pc = "serialize"
    /\ file = <<>> /\ inpos = 0 /\ keys = <<>> /\ xml = <<>>
    /\ res = "Ok"
    /\ stdin = <<>> /\ stdout = <<>>
    /\ hist = NoKdfCall

\* serialize into an empty buffer; other bytes follow in the buffer
KdfSerialize ==
    /\ pc = "serialize"
    /\ \E r \in {KdfParameters_serialize(db[1])} :
          /\ res' = r.err
          /\ file' = r.out \o Trailing
          /\ hist' = [NoKdfCall EXCEPT !.op = "serialize", !.written = r.out]
          /\ pc' = IF r.err = "Ok" THEN "deserialize" ELSE "done"
    /\ UNCHANGED <<inpos, db, keys, xml, stdin, stdout>>

\* deserialize from a cursor at the start of the buffer
KdfDeserialize ==
    /\ pc = "deserialize"
    /\ \E r \in {KdfParameters_deserialize(file, 1)} :
          /\ res' = r.err
          /\ inpos' = IF r.err = "Ok" THEN r.pos - 1 ELSE inpos
          /\ hist' = [hist EXCEPT !.op = "deserialize",
                          !.response = IF r.err = "Ok" THEN <<r.val>> ELSE <<>>]
    /\ pc' = "done"
    /\ UNCHANGED <<file, db, keys, xml, stdin, stdout>>

NextKdf == KdfSerialize \/ KdfDeserialize

SpecKdf == InitKdf /\ [][NextKdf]_vars

\* the parameters have a salt of 16 bytes and a memory that is a multiple
\* of 1024
KdfInRange ==
    /\ Len(db[1].salt) = SALT_SIZE
    /\ \A i \in 23..32 : U32Bits(db[1].memory)[i] = 0

\* C29: for parameters with a 16-byte salt and a memory that is a multiple
\* of 1024, serialize succeeds, and deserialize of its output returns the
\* same parameters and consumes the bytes written and no more
C29_RoundTrip ==
    /\ (hist.op = "serialize" /\ KdfInRange) => res = "Ok"
    /\ (hist.op = "deserialize" /\ KdfInRange) =>
          /\ res = "Ok" /\ hist.response = db
          /\ inpos = Len(hist.written)

-----------------------------------------------------------------------------
(* database_header.rs: OuterHeader::deserialize on inputs given as lists   *)
(* of records [t, size, data], cut after some number of bytes.             *)

\* the records of the bytes serialize writes
RECURSIVE SplitRecords(_, _)
SplitRecords(bytes, pos) ==
    IF pos + 4 > Len(bytes) THEN <<>>
    ELSE <<[t |-> bytes[pos][2], size |-> from_le_bytes(SubSeq(bytes, pos + 1, pos + 4)),
            data |-> SubSeq(bytes, pos + 5, pos + 4 + from_le_bytes(SubSeq(bytes, pos + 1, pos + 4)))]>>
           \o SplitRecords(bytes, pos + 5 + from_le_bytes(SubSeq(bytes, pos + 1, pos + 4)))

RecordBytes(records) ==
    Flat([i \in 1..Len(records) |->
             to_le_bytes(records[i].t, 1) \o to_le_bytes(records[i].size, 4) \o records[i].data])

\* the header the records are taken from
RecordHeader ==
    CHOOSE header \in Headers :
        /\ header.cipher = "ChaCha20" /\ header.compression = "Gzip" /\ Len(header.iv) = 12
        /\ header.kdf_parameters.algorithm = "ID" /\ header.custom_data = <<>>

\* records put into an input: a comment, a Cipher and a Compression record
\* of a wrong length, a record of an unknown type, an empty comment
ExtraRecords ==
    { <<>>,
      <<[t |-> 1, size |-> 2, data |-> Repeat(33, 2)]>>,
      <<[t |-> 1, size |-> 0, data |-> <<>>]>>,
      <<[t |-> 2, size |-> 15, data |-> Repeat(1, 15)]>>,
      <<[t |-> 3, size |-> 5, data |-> Repeat(0, 5)]>>,
      <<[t |-> 5, size |-> 1, data |-> Repeat(0, 1)]>> }

WithoutRecord(seq, i) == [k \in 1..(Len(seq) - 1) |-> IF k < i THEN seq[k] ELSE seq[k + 1]]

\* the record lists: those of the header, with one record or none left out
\* (the sixth is EndOfHeader) and a record of ExtraRecords at the start or
\* before the last record
RecordLists ==
    { IF front THEN extra \o kept ELSE SubSeq(kept, 1, Len(kept) - 1) \o extra
                                         \o SubSeq(kept, Len(kept), Len(kept)) :
        front \in BOOLEAN, extra \in ExtraRecords,
        kept \in { SplitRecords(OuterHeader_serialize(RecordHeader), 1) }
                   \cup { WithoutRecord(SplitRecords(OuterHeader_serialize(RecordHeader), 1), i) :
                            i \in 1..6 } }

NoRecordCall == [op |-> "none", records |-> <<>>, cut |-> 0, response |-> <<>>]

\* the input is the bytes of a record list, whole or without its last 1, 4
\* or 40 bytes
InitRecords ==
    \E records \in RecordLists, less \in {0, 1, 4, 40} :
        /\ file = SubSeq(RecordBytes(records), 1, Len(RecordBytes(records)) - less)
        /\ hist = [NoRecordCall EXCEPT !.records = records,
                                       !.cut = Len(RecordBytes(records)) - less]
        /\ pc = "written"
        /\ inpos = 0
        /\ db = <<RecordHeader>> /\ keys = <<>> /\ xml = <<>>
        /\ res = "Ok"
        /\ stdin = <<>> /\ stdout = <<>>

RecordsDeserialize ==
    /\ pc = "written"
    /\ \E r \in {OuterHeader_deserialize(file, 1)} :
          /\ res' = r.err
          /\ inpos' = IF r.err = "Ok" THEN r.pos - 1 ELSE inpos
          /\ hist' = [hist EXCEPT !.op = "deserialize",
                          !.response = IF r.err = "Ok" THEN <<r.val>> ELSE <<>>]
    /\ pc' = "done"
    /\ UNCHANGED <<file, db, keys, xml, stdin, stdout>>

NextRecords == RecordsDeserialize

SpecRecords == InitRecords /\ [][NextRecords]_vars

\* what the records of an input give when they are read in order from the
\* record i, with the first cut bytes of the input there: Io when the input
\* ends within a record or before EndOfHeader, UnsupportedHeaderFieldType
\* for an unknown type, InvalidFieldSize for a Cipher record not of 16 and a
\* Compression record not of 4 bytes, HeaderFieldsMissing when EndOfHeader
\* comes before the five required records, Ok otherwise
RECURSIVE RecordsOutcome(_, _, _, _, _)
RecordsOutcome(records, i, consumed, cut, seen) ==
    IF i > Len(records) \/ consumed + 1 > cut THEN "Io"
    ELSE IF records[i].t \notin {0, 1, 2, 3, 4, 7, 11, 12} THEN "UnsupportedHeaderFieldType"
    ELSE IF consumed + 5 > cut THEN "Io"
    ELSE IF records[i].t = 2 /\ records[i].size # 16 THEN "InvalidFieldSize"
    ELSE IF records[i].t = 3 /\ records[i].size # 4 THEN "InvalidFieldSize"
    ELSE IF consumed + 5 + records[i].size > cut THEN "Io"
    ELSE IF records[i].t = 0
         THEN IF {2, 3, 4, 7, 11} \subseteq seen THEN "Ok" ELSE "HeaderFieldsMissing"
    ELSE RecordsOutcome(records, i + 1, consumed + 5 + records[i].size, cut,
                        seen \cup {records[i].t})

\* C30: deserialize reads the records up to EndOfHeader; it succeeds, with
\* the header the records hold, when the Cipher, Compression, MainSeed,
\* InitializationVector and KdfParameters records have all come, and fails
\* with HeaderFieldsMissing when one has not; comments are skipped; a Cipher
\* or Compression record of a wrong length gives InvalidFieldSize, an
\* unknown type UnsupportedHeaderFieldType, an input that ends before the
\* end of EndOfHeader Io
C30_Records ==
    hist.op = "deserialize" =>
        /\ res = RecordsOutcome(hist.records, 1, 0, hist.cut, {})
        /\ res = "Ok" => hist.response = db

\* a header with a comment and without a MainSeed record has been refused
C30_Witness ==
    /\ hist.op = "deserialize" /\ res = "HeaderFieldsMissing"
    /\ \E i \in 1..Len(hist.records) : hist.records[i].t = 1
    /\ \A i \in 1..Len(hist.records) : hist.records[i].t # 4
====

